---- MODULE Spec2Model ----
(***************************************************************************)
(* Model of kvist's workspace scanner (workspace/scanner.go): the repo     *)
(* cache, full and quick discovery, metadata enrichment and the scan       *)
(* entry points, together with the parts of the terminal front end that    *)
(* drive them.                                                             *)
(*                                                                         *)
(* Strings are sequences of one-character strings, so that prefix tests,   *)
(* filepath.Base and the lexical order of names are computed, not assumed. *)
(* A path is the sequence of its components below "/".                     *)
(***************************************************************************)
EXTENDS Integers, Sequences, FiniteSets, TLC

VARIABLES
    config,     \* Scanner.config.Workspaces: sequence of [name, path]
    fs,         \* the directory tree: path -> "dir" | "file" | "noread"
    clock,      \* time.Now(), in minutes
    cache,      \* Scanner.cache.Repos: path -> RepoInfo
    disk,       \* the repos map last written by RepoCache.Save
    diskOk,     \* whether the cache file can be written
    scan,       \* the goroutine of ScanWorkspaces / ScanSingleWorkspace
    upd,        \* an UpdateRepo call between its scanRepo and its store
    inc,        \* the producer goroutine of DiscoverReposIncremental
    tasks,      \* detached enrichRepoMetadata goroutines
    calls,      \* number of scanner calls started so far
    enr,        \* SpecEnrich: inputs and results of two scanRepo calls
    snap,       \* SpecSort, SpecMerge: results of GetCachedRepos calls
    mu          \* Scanner.mu

vars == <<config, fs, clock, cache, disk, diskOk, scan, upd, inc, tasks, calls, enr, snap, mu>>

----------------------------------------------------------------------------
(* Bounds *)

MaxTime == 5        \* the clock stops here
MaxCalls == 2       \* scanner calls started in one behaviour

(* Program constants *)

StalenessThreshold == 5     \* scanner.go:244, 5*time.Minute
SemaphoreWidth == 10        \* scanner.go:188
IncBuffer == 10             \* scanner.go:354

----------------------------------------------------------------------------
(* Strings *)

Ascii == ("." :> 46) @@ ("_" :> 95) @@ ("a" :> 97) @@ ("b" :> 98) @@
         ("c" :> 99) @@ ("d" :> 100) @@ ("e" :> 101) @@ ("g" :> 103) @@
         ("i" :> 105) @@ ("l" :> 108) @@ ("m" :> 109) @@ ("n" :> 110) @@
         ("o" :> 111) @@ ("r" :> 114) @@ ("s" :> 115) @@ ("t" :> 116) @@
         ("u" :> 117) @@ ("v" :> 118) @@ ("w" :> 119) @@ ("x" :> 120) @@
         ("y" :> 121) @@ ("/" :> 47) @@ ("f" :> 102) @@ ("A" :> 65) @@
         ("D" :> 68) @@ ("E" :> 69) @@ ("H" :> 72) @@
         ("\"" :> 34) @@ ("\\" :> 92) @@ ("0xFE" :> 254) @@ ("0xFF" :> 255) @@
         ("U+FFFD" :> 239)     \* the first byte of the three of U+FFFD

\* Go's s < t on strings: bytewise lexical order
RECURSIVE StrLess(_, _)
StrLess(s, t) ==
    IF t = <<>> THEN FALSE
    ELSE IF s = <<>> THEN TRUE
    ELSE IF Ascii[Head(s)] # Ascii[Head(t)] THEN Ascii[Head(s)] < Ascii[Head(t)]
    ELSE StrLess(Tail(s), Tail(t))

\* strings.HasPrefix(s, prefix)
HasPrefix(s, prefix) ==
    /\ Len(prefix) <= Len(s)
    /\ SubSeq(s, 1, Len(prefix)) = prefix

\* the string of an absolute path: "/" c1 "/" c2 ...
RECURSIVE PathString(_)
PathString(p) ==
    IF p = <<>> THEN <<>>
    ELSE <<"/">> \o Head(p) \o PathString(Tail(p))

\* filepath.Base, filepath.Dir, filepath.Join(dir, name)
Base(p) == IF p = <<>> THEN <<"/">> ELSE p[Len(p)]
Dir(p) == IF p = <<>> THEN <<>> ELSE SubSeq(p, 1, Len(p) - 1)
Join(dir, name) == Append(dir, name)

GitName == <<".", "g", "i", "t">>
SkipNames == { <<"n","o","d","e","_","m","o","d","u","l","e","s">>,
               <<"t","a","r","g","e","t">>,
               <<"b","u","i","l","d">>,
               <<"d","i","s","t">>,
               <<".","n","e","x","t">>,
               <<".","n","u","x","t">>,
               <<"v","e","n","d","o","r">> }

----------------------------------------------------------------------------
(* The directory tree and filepath.Walk *)

\* names of the entries of directory dir, in lexical order (readDirNames)
ChildNames(tree, dir) ==
    { p[Len(p)] : p \in { q \in DOMAIN tree : Len(q) = Len(dir) + 1 /\ Dir(q) = dir } }

RECURSIVE SortNames(_)
SortNames(S) ==
    IF S = {} THEN <<>>
    ELSE LET m == CHOOSE n \in S : \A o \in S \ {n} : StrLess(n, o)
         IN  <<m>> \o SortNames(S \ {m})

\* the callback of discoverRepos for one visited entry, ctx not cancelled:
\* the repo it appends (or none) and whether it asks to skip the directory
\* a callback that takes only a .git directory for the mark of a repository
WalkFnGitDirOnly(path, kind) ==
    LET name == Base(path)
        isDir == kind # "file"
    IN  IF kind = "noread" THEN [found |-> <<>>, skip |-> TRUE]
        ELSE IF isDir /\ name = GitName THEN [found |-> <<Dir(path)>>, skip |-> TRUE]
        ELSE IF isDir /\ HasPrefix(name, <<".">>) THEN [found |-> <<>>, skip |-> TRUE]
        ELSE IF isDir /\ name \in SkipNames THEN [found |-> <<>>, skip |-> TRUE]
        ELSE [found |-> <<>>, skip |-> FALSE]

WalkFn(path, kind) ==
    LET name == Base(path)
        isDir == kind # "file"
    IN  IF kind = "noread" THEN [found |-> <<>>, skip |-> TRUE]
        ELSE IF isDir /\ name = GitName THEN [found |-> <<Dir(path)>>, skip |-> TRUE]
        ELSE IF ~isDir /\ name = GitName THEN [found |-> <<Dir(path)>>, skip |-> FALSE]
        ELSE IF isDir /\ HasPrefix(name, <<".">>) THEN [found |-> <<>>, skip |-> TRUE]
        ELSE IF isDir /\ name \in SkipNames THEN [found |-> <<>>, skip |-> TRUE]
        ELSE [found |-> <<>>, skip |-> FALSE]

RECURSIVE WalkEntry(_, _), WalkChildren(_, _, _)
WalkEntry(tree, path) ==
    LET r == WalkFn(path, tree[path])
    IN  IF tree[path] = "file" \/ r.skip THEN r.found
        ELSE r.found \o WalkChildren(tree, path, SortNames(ChildNames(tree, path)))
WalkChildren(tree, dir, names) ==
    IF names = <<>> THEN <<>>
    ELSE WalkEntry(tree, Join(dir, Head(names))) \o WalkChildren(tree, dir, Tail(names))

\* the paths the walk calls its callback on, in the order of the calls
RECURSIVE WalkVisits(_, _), WalkVisitsChildren(_, _, _)
WalkVisits(tree, path) ==
    LET r == WalkFn(path, tree[path])
    IN  IF tree[path] = "file" \/ r.skip THEN <<path>>
        ELSE <<path>> \o WalkVisitsChildren(tree, path, SortNames(ChildNames(tree, path)))
WalkVisitsChildren(tree, dir, names) ==
    IF names = <<>> THEN <<>>
    ELSE WalkVisits(tree, Join(dir, Head(names))) \o WalkVisitsChildren(tree, dir, Tail(names))

\* discoverRepos: the walk stops with ctx.Err() at the first visit that sees
\* ctx cancelled; a root that cannot be lstat'ed is reported to the callback,
\* which returns nil for it
discoverRepos(tree, ctxDone, root) ==
    IF ctxDone THEN [repos |-> <<>>, err |-> "ctx"]
    ELSE IF root \notin DOMAIN tree THEN [repos |-> <<>>, err |-> "nil"]
    ELSE [repos |-> WalkEntry(tree, root), err |-> "nil"]

\* the calls of the callback of a walk from root: a root that is not there
\* gets one call, with the error of Lstat
Visits(tree, root) ==
    IF root \notin DOMAIN tree THEN <<root>> ELSE WalkVisits(tree, root)

\* what the callback has appended to repos in the given calls
RECURSIVE FoundIn(_, _)
FoundIn(tree, visits) ==
    IF visits = <<>> THEN <<>>
    ELSE (IF Head(visits) \in DOMAIN tree
          THEN WalkFn(Head(visits), tree[Head(visits)]).found ELSE <<>>)
         \o FoundIn(tree, Tail(visits))

\* a walk whose callback never looks at ctx
discoverReposUnchecked(tree, root, cut) ==
    [repos |-> FoundIn(tree, Visits(tree, root)), err |-> "nil",
     visited |-> Len(Visits(tree, root))]

\* discoverRepos on a ctx that the callback finds cancelled in its call
\* number cut (0: in none): the walk ends there with ctx.Err(), and repos,
\* holding what the earlier calls appended, is returned beside the error
discoverReposUntil(tree, root, cut) ==
    LET visits == Visits(tree, root)
    IN  IF cut \in 1..Len(visits)
        THEN [repos |-> FoundIn(tree, SubSeq(visits, 1, cut - 1)), err |-> "ctx",
              visited |-> cut - 1]
        ELSE [repos |-> FoundIn(tree, visits), err |-> "nil", visited |-> Len(visits)]

\* the calls in which the callback may find ctx cancelled: the first one
\* when ctx is cancelled already, otherwise any or none
CutPoints(tree, ctxDone, root) ==
    IF ctxDone THEN {1} ELSE 0..Len(Visits(tree, root))

----------------------------------------------------------------------------
(* Records *)

ZeroTime == -100    \* time.Time{}: before every clock value and commit time

\* RepoInfo{}
ZeroRepo ==
    [path |-> <<>>, name |-> <<>>, branch |-> "", ahead |-> 0, behind |-> 0,
     hasUpstream |-> FALSE, lastCommitTime |-> ZeroTime, lastScanned |-> ZeroTime,
     workspaceName |-> ""]

\* RepoInfo{Path, Name, WorkspaceName, LastScanned: time.Now()}
Placeholder(repoPath, workspaceName, now) ==
    [ZeroRepo EXCEPT !.path = repoPath, !.name = Base(repoPath),
                     !.workspaceName = workspaceName, !.lastScanned = now]

\* the map with no key, and s.cache.Repos[k] = v
EmptyMap == [p \in {} |-> ZeroRepo]
Put(m, k, v) == [x \in DOMAIN m \cup {k} |-> IF x = k THEN v ELSE m[x]]
Without(m, K) == [x \in DOMAIN m \ K |-> m[x]]

----------------------------------------------------------------------------
(* The git accessor: what the three queries of one enrichment answer *)

Branches == {"", "main"}            \* "" is a detached HEAD
AheadBehinds == {<<0, 0>>, <<2, 1>>}
CommitTimes == {10, 20}

\* git.GetCurrentBranch: (branch, err)
BranchAnswers ==
    {[err |-> TRUE, branch |-> ""]} \cup {[err |-> FALSE, branch |-> b] : b \in Branches}
\* git.GetAheadBehind: (ahead, behind, ok)
AheadBehindAnswers ==
    {[ok |-> FALSE, ahead |-> 0, behind |-> 0]} \cup
    {[ok |-> TRUE, ahead |-> ab[1], behind |-> ab[2]] : ab \in AheadBehinds}
\* git.GetCommits(path, 1): (commits, err), commits given by their times
CommitAnswers ==
    {[err |-> TRUE, commits |-> <<>>], [err |-> FALSE, commits |-> <<>>]} \cup
    {[err |-> FALSE, commits |-> <<t>>] : t \in CommitTimes}

AllAnswers == [b : BranchAnswers, ab : AheadBehindAnswers, c : CommitAnswers]

AnswersOk ==
    [b |-> [err |-> FALSE, branch |-> "main"],
     ab |-> [ok |-> TRUE, ahead |-> 2, behind |-> 1],
     c |-> [err |-> FALSE, commits |-> <<10>>]]
AnswersFail ==
    [b |-> [err |-> TRUE, branch |-> ""],
     ab |-> [ok |-> FALSE, ahead |-> 0, behind |-> 0],
     c |-> [err |-> TRUE, commits |-> <<>>]]
\* the answers drawn by the scan operations of Spec
ScanAnswers == {AnswersOk, AnswersFail}

\* the queries with an early return: a failed branch query ends the enrichment
EnrichedFailFast(repo, q) ==
    IF q.b.err THEN repo
    ELSE LET r1 == [repo EXCEPT !.branch = q.b.branch]
             r2 == IF q.ab.ok
                   THEN [r1 EXCEPT !.ahead = q.ab.ahead, !.behind = q.ab.behind,
                                   !.hasUpstream = TRUE]
                   ELSE r1
         IN  IF ~q.c.err /\ Len(q.c.commits) > 0
             THEN [r2 EXCEPT !.lastCommitTime = q.c.commits[1]]
             ELSE r2

\* the three queries of scanRepo and enrichRepoMetadata applied to repo
Enriched(repo, q) ==
    LET r1 == IF ~q.b.err THEN [repo EXCEPT !.branch = q.b.branch] ELSE repo
        r2 == IF q.ab.ok
              THEN [r1 EXCEPT !.ahead = q.ab.ahead, !.behind = q.ab.behind,
                              !.hasUpstream = TRUE]
              ELSE r1
        r3 == IF ~q.c.err /\ Len(q.c.commits) > 0
              THEN [r2 EXCEPT !.lastCommitTime = q.c.commits[1]]
              ELSE r2
    IN  r3

\* the staleness test of scanRepo
Fresh(cached, now) == now - cached.lastScanned < StalenessThreshold

\* a scanRepo whose cache hit returns the cached record with a new LastScanned
scanRepoTouching(repos, now, ctxDone, repoPath, workspaceName, q) ==
    IF ctxDone THEN [repo |-> ZeroRepo, err |-> "ctx", queries |-> 0]
    ELSE IF repoPath \in DOMAIN repos /\ Fresh(repos[repoPath], now)
    THEN [repo |-> [repos[repoPath] EXCEPT !.lastScanned = now],
          err |-> "nil", queries |-> 0]
    ELSE [repo |-> Enriched(Placeholder(repoPath, workspaceName, now), q),
          err |-> "nil", queries |-> 3]

\* scanRepo: the record, the error and the number of git queries issued
scanRepo(repos, now, ctxDone, repoPath, workspaceName, q) ==
    IF ctxDone THEN [repo |-> ZeroRepo, err |-> "ctx", queries |-> 0]
    ELSE IF repoPath \in DOMAIN repos /\ Fresh(repos[repoPath], now)
    THEN [repo |-> repos[repoPath], err |-> "nil", queries |-> 0]
    ELSE [repo |-> Enriched(Placeholder(repoPath, workspaceName, now), q),
          err |-> "nil", queries |-> 3]

----------------------------------------------------------------------------
(* The configuration and the directory tree of Spec *)

NmW == <<"w">>
NmIn == <<"i", "n">>
NmX == <<"x">>

\* Config.Workspaces: "inner" lies inside "outer"
NestedConfig ==
    << [name |-> "outer", path |-> <<NmW>>],
       [name |-> "inner", path |-> <<NmW, NmIn>>] >>

\* /w/x/.git (a directory) and /w/in/x/.git (the file of a worktree)
Tree0 ==
    (<<NmW>> :> "dir") @@ (<<NmW, NmX>> :> "dir") @@ (<<NmW, NmX, GitName>> :> "dir") @@
    (<<NmW, NmIn>> :> "dir") @@ (<<NmW, NmIn, NmX>> :> "dir") @@
    (<<NmW, NmIn, NmX, GitName>> :> "file")

Removable == {<<NmW, NmIn>>}            \* directories that may be deleted
Lockable == {<<NmW, NmIn>>}                 \* directories that may lose read access
RepoPaths == {<<NmW, NmX>>, <<NmW, NmIn, NmX>>}   \* paths handed to UpdateRepo

\* p is q or lies below q
Under(p, q) == Len(q) <= Len(p) /\ SubSeq(p, 1, Len(q)) = q

----------------------------------------------------------------------------
(* The cache merge of the two full scans *)

RECURSIVE PutAll(_, _)
PutAll(m, rs) ==
    IF rs = <<>> THEN m
    ELSE PutAll(Put(m, Head(rs).path, Head(rs)), Tail(rs))

\* ScanWorkspaces, scanner.go:64-77
MergeAll(repos, successfulWorkspaces, allRepos) ==
    PutAll(Without(repos, {p \in DOMAIN repos :
                              repos[p].workspaceName \in successfulWorkspaces}),
           allRepos)

\* ScanSingleWorkspace, scanner.go:322-333
MergeOne(repos, workspaceName, scanned) ==
    PutAll(Without(repos, {p \in DOMAIN repos :
                              repos[p].workspaceName = workspaceName}),
           scanned)

\* RepoCache.Save: the whole map is rewritten, or the write fails
Save(repos, old, ok) == IF ok THEN repos ELSE old

\* Scanner.SaveCache, which the front end calls: taken to be the cache's Save
SaveCache(repos, old, ok) == Save(repos, old, ok)

----------------------------------------------------------------------------
(* Initial state *)

\* scan.found and scan.produced record, for the properties below, the
\* <<workspace, path>> pairs discovered and the <<workspace, record>> pairs
\* the workers returned in the current call; scan.before is the cache as the
\* stepwise merge of SpecMerge found it
NoResult == [sent |-> FALSE, repos |-> <<>>, err |-> <<>>]
IdleScan ==
    [pc |-> "idle", kind |-> "none", ctxDone |-> FALSE, idx |-> 0,
     ws |-> [name |-> "", path |-> <<>>], found |-> {},
     waiting |-> {}, scanned |-> <<>>, allRepos |-> <<>>,
     successful |-> {}, errors |-> <<>>, result |-> NoResult,
     produced |-> {}, before |-> EmptyMap,
     pool |-> [p \in {} |-> [pc |-> "select", released |-> 0]], sem |-> 0,
     saves |-> 0, closes |-> 0]
IdleUpd == [pc |-> "idle", path |-> <<>>, repo |-> ZeroRepo, queries |-> 0]
IdleInc ==
    [pc |-> "idle", ctxDone |-> FALSE, ws |-> [name |-> "", path |-> <<>>],
     paths |-> <<>>, ch |-> <<>>, closed |-> FALSE, closes |-> 0]
\* enr records the calls of scanRepo that SpecEnrich makes: their number, the
\* inputs of the last one (ctx, answers, workspace name, the cache and the
\* time it ran on) and the results of the last two
NoCall == [repo |-> ZeroRepo, err |-> "none", queries |-> 0]
NoEnr ==
    [n |-> 0, ctxDone |-> FALSE, q |-> AnswersFail, workspaceName |-> "",
     before |-> EmptyMap, now |-> 0, last |-> NoCall, prev |-> NoCall,
     stored |-> FALSE]
NoSnap == <<>>
\* Scanner.mu: whether a writer holds it (readers hold it only within one step)
Unlocked == [writer |-> FALSE]

\* NewScanner on the cache LoadRepoCache returns when there is no cache file
Init ==
    /\ config = NestedConfig
    /\ fs = Tree0
    /\ clock = 0
    /\ cache = EmptyMap
    /\ disk = EmptyMap
    /\ diskOk \in BOOLEAN
    /\ scan = IdleScan
    /\ upd = IdleUpd
    /\ inc = IdleInc
    /\ tasks = {}
    /\ calls = 0
    /\ enr = NoEnr
    /\ snap = NoSnap
    /\ mu = Unlocked

----------------------------------------------------------------------------
(* The environment: time passes; between calls directories disappear *)

\* no call of the scanner is in flight (detached tasks may still run)
Quiet == scan.pc = "idle" /\ upd.pc = "idle" /\ inc.pc = "idle"

\* time passes by just less than the staleness threshold, or by all of it;
\* a call is over within its ctx timeout of 30 s, so not during a call
Tick ==
    /\ Quiet
    /\ \E d \in {StalenessThreshold - 1, StalenessThreshold} :
          /\ clock + d <= MaxTime
          /\ clock' = clock + d
    /\ UNCHANGED <<config, diskOk, fs, cache, disk, scan, upd, inc, tasks, calls, enr, snap, mu>>

RemoveDir ==
    /\ Quiet
    /\ \E d \in Removable \cap DOMAIN fs :
          fs' = [p \in {q \in DOMAIN fs : ~Under(q, d)} |-> fs[p]]
    /\ UNCHANGED <<config, diskOk, clock, cache, disk, scan, upd, inc, tasks, calls, enr, snap, mu>>

LockDir ==
    /\ Quiet
    /\ \E d \in Lockable \cap DOMAIN fs :
          /\ fs[d] = "dir"
          /\ fs' = [fs EXCEPT ![d] = "noread"]
    /\ UNCHANGED <<config, diskOk, clock, cache, disk, scan, upd, inc, tasks, calls, enr, snap, mu>>

----------------------------------------------------------------------------
(* ScanWorkspaces and ScanSingleWorkspace *)

StartScanAll ==
    /\ Quiet
    /\ calls < MaxCalls
    /\ calls' = calls + 1
    /\ scan' = [IdleScan EXCEPT !.pc = "discover", !.kind = "all", !.idx = 1]
    /\ UNCHANGED <<config, diskOk, fs, clock, cache, disk, upd, inc, tasks, enr, snap, mu>>

StartScanOne ==
    /\ Quiet
    /\ calls < MaxCalls
    /\ calls' = calls + 1
    /\ \E i \in 1..Len(config) :
          scan' = [IdleScan EXCEPT !.pc = "discover", !.kind = "one", !.ws = config[i]]
    /\ UNCHANGED <<config, diskOk, fs, clock, cache, disk, upd, inc, tasks, enr, snap, mu>>

\* ctx is cancelled or its timeout expires
CancelScan ==
    /\ scan.pc \in {"discover", "enrich", "merge", "save"}
    /\ ~scan.ctxDone
    /\ scan' = [scan EXCEPT !.ctxDone = TRUE]
    /\ UNCHANGED <<config, diskOk, fs, clock, cache, disk, upd, inc, tasks, calls, enr, snap, mu>>

RECURSIVE SeqToSet(_)
SeqToSet(s) == IF s = <<>> THEN {} ELSE {Head(s)} \cup SeqToSet(Tail(s))

\* the select that ends both scan goroutines: the buffered send and
\* ctx.Done() are both ready once ctx is cancelled
Delivered(ctxDone, repos, err) ==
    {[sent |-> TRUE, repos |-> repos, err |-> err]} \cup
    (IF ctxDone THEN {NoResult} ELSE {})

\* one iteration of the workspace loop up to the start of scanRepos
\* (scanner.go:49-58), or the end of the loop
DiscoverAll ==
    /\ scan.pc = "discover"
    /\ scan.kind = "all"
    /\ IF scan.idx > Len(config)
       THEN scan' = [scan EXCEPT !.pc = "merge"]
       ELSE \E cut \in CutPoints(fs, scan.ctxDone, config[scan.idx].path) :
            LET workspace == config[scan.idx]
                d == discoverReposUntil(fs, workspace.path, cut)
            IN  IF d.err # "nil"
                THEN scan' = [scan EXCEPT
                        !.ctxDone = TRUE,
                        !.errors = Append(@, <<"workspace", workspace.name, d.err>>),
                        !.idx = @ + 1]
                ELSE scan' = [scan EXCEPT
                        !.pc = "enrich", !.ws = workspace,
                        !.found = @ \cup {<<workspace.name, p>> : p \in SeqToSet(d.repos)},
                        !.waiting = SeqToSet(d.repos),
                        !.scanned = <<>>]
    /\ UNCHANGED <<config, diskOk, fs, clock, cache, disk, upd, inc, tasks, calls, enr, snap, mu>>

\* scanner.go:309-319
DiscoverOne ==
    /\ scan.pc = "discover"
    /\ scan.kind = "one"
    /\ \E cut \in CutPoints(fs, scan.ctxDone, scan.ws.path) :
       LET d == discoverReposUntil(fs, scan.ws.path, cut)
       IN  IF d.err # "nil"
           THEN \E res \in Delivered(TRUE, <<>>, <<<<"discover", scan.ws.name, d.err>>>>) :
                   scan' = [scan EXCEPT !.ctxDone = TRUE, !.pc = "done", !.result = res]
           ELSE scan' = [scan EXCEPT
                   !.pc = "enrich",
                   !.found = {<<scan.ws.name, p>> : p \in SeqToSet(d.repos)},
                   !.waiting = SeqToSet(d.repos), !.scanned = <<>>]
    /\ UNCHANGED <<config, diskOk, fs, clock, cache, disk, upd, inc, tasks, calls, enr, snap, mu>>

\* a worker of scanRepos whose select finds ctx.Done() ready returns
\* without a result (scanner.go:195-200)
WorkerCancelled ==
    /\ scan.pc = "enrich"
    /\ scan.ctxDone
    /\ \E p \in scan.waiting :
          scan' = [scan EXCEPT !.waiting = @ \ {p}]
    /\ UNCHANGED <<config, diskOk, fs, clock, cache, disk, upd, inc, tasks, calls, enr, snap, mu>>

\* a worker takes a semaphore slot, runs scanRepo, sends its result and
\* frees the slot; the collector keeps the record when there is no error
\* (scanner.go:195-218)
WorkerScan ==
    /\ scan.pc = "enrich"
    /\ \E p \in scan.waiting, q \in ScanAnswers :
          LET r == scanRepo(cache, clock, scan.ctxDone, p, scan.ws.name, q)
          IN  scan' = [scan EXCEPT
                  !.waiting = @ \ {p},
                  !.scanned = IF r.err = "nil" THEN Append(@, r.repo) ELSE @,
                  !.produced = IF r.err = "nil"
                               THEN @ \cup {<<scan.ws.name, r.repo>>} ELSE @]
    /\ UNCHANGED <<config, diskOk, fs, clock, cache, disk, upd, inc, tasks, calls, enr, snap, mu>>

\* all workers are done: the results channel is closed and scanRepos returns
Collect ==
    /\ scan.pc = "enrich"
    /\ scan.waiting = {}
    /\ IF scan.kind = "all"
       THEN scan' = [scan EXCEPT
               !.pc = "discover", !.idx = @ + 1,
               !.allRepos = @ \o scan.scanned,
               !.successful = @ \cup {scan.ws.name}]
       ELSE scan' = [scan EXCEPT !.pc = "merge", !.allRepos = scan.scanned]
    /\ UNCHANGED <<config, diskOk, fs, clock, cache, disk, upd, inc, tasks, calls, enr, snap, mu>>

\* the locked section that rewrites the cache
MergeScan ==
    /\ scan.pc = "merge"
    /\ cache' = IF scan.kind = "all"
                THEN MergeAll(cache, scan.successful, scan.allRepos)
                ELSE MergeOne(cache, scan.ws.name, scan.allRepos)
    /\ scan' = [scan EXCEPT !.pc = "save"]
    /\ UNCHANGED <<config, diskOk, fs, clock, disk, upd, inc, tasks, calls, enr, snap, mu>>

\* s.cache.Save() and the final select
SaveScan ==
    /\ scan.pc = "save"
    /\ LET errors == IF diskOk THEN scan.errors ELSE Append(scan.errors, <<"save">>)
       IN  /\ disk' = Save(cache, disk, diskOk)
           /\ \E res \in Delivered(scan.ctxDone, scan.allRepos, errors) :
                 scan' = [scan EXCEPT !.pc = "done", !.errors = errors,
                                      !.result = res, !.saves = @ + 1]
    /\ UNCHANGED <<config, diskOk, fs, clock, cache, upd, inc, tasks, calls, enr, snap, mu>>

\* the caller receives from the results channel (a ScanResult, or the zero
\* value of the closed channel)
ReceiveScan ==
    /\ scan.pc = "done"
    /\ scan' = IdleScan
    /\ UNCHANGED <<config, diskOk, fs, clock, cache, disk, upd, inc, tasks, calls, enr, snap, mu>>

----------------------------------------------------------------------------
(* UpdateRepo *)

\* scanner.go:282-288: the first workspace whose path is a string prefix
RECURSIVE WorkspaceOf(_, _)
WorkspaceOf(workspaces, repoPath) ==
    IF workspaces = <<>> THEN ""
    ELSE IF HasPrefix(PathString(repoPath), PathString(Head(workspaces).path))
    THEN Head(workspaces).name
    ELSE WorkspaceOf(Tail(workspaces), repoPath)

\* UpdateRepo up to the return of scanRepo
UpdateRepoScan ==
    /\ Quiet
    /\ calls < MaxCalls
    /\ calls' = calls + 1
    /\ \E repoPath \in RepoPaths, ctxDone \in BOOLEAN, q \in ScanAnswers :
          LET r == scanRepo(cache, clock, ctxDone, repoPath,
                            WorkspaceOf(config, repoPath), q)
          IN  IF r.err # "nil"
              THEN upd' = IdleUpd
              ELSE upd' = [pc |-> "store", path |-> repoPath, repo |-> r.repo,
                           queries |-> r.queries]
    /\ UNCHANGED <<config, diskOk, fs, clock, cache, disk, scan, inc, tasks, enr, snap, mu>>

\* UpdateRepo's locked store and its Save
UpdateRepoStore ==
    /\ upd.pc = "store"
    /\ cache' = Put(cache, upd.path, upd.repo)
    /\ disk' = Save(cache', disk, diskOk)
    /\ upd' = IdleUpd
    /\ UNCHANGED <<config, diskOk, fs, clock, scan, inc, tasks, calls, enr, snap, mu>>

----------------------------------------------------------------------------
(* discoverReposQuick *)

HeadName == <<"H", "E", "A", "D">>
RefsName == <<"r", "e", "f", "s">>
QuickSkipNames == { <<"n","o","d","e","_","m","o","d","u","l","e","s">>,
                    <<"t","a","r","g","e","t">>,
                    <<"b","u","i","l","d">>,
                    <<"d","i","s","t">> }

\* os.Stat(p) succeeds: p exists and every directory above it can be searched
StatOk(tree, p) ==
    /\ p \in DOMAIN tree
    /\ \A n \in 1..(Len(p) - 1) :
          SubSeq(p, 1, n) \in DOMAIN tree => tree[SubSeq(p, 1, n)] = "dir"

\* os.ReadDir(dir) succeeds
ReadDirOk(tree, dir) == StatOk(tree, dir) /\ tree[dir] = "dir"

\* a quick discovery that looks at the workspace's own entries only
QuickSubEntriesNone(tree, entryPath, names) == <<>>

RECURSIVE QuickSubEntries(_, _, _)
QuickSubEntries(tree, entryPath, names) ==
    IF names = <<>> THEN <<>>
    ELSE LET subPath == Join(entryPath, Head(names))
             hit == /\ tree[subPath] # "file"
                    /\ Head(names) \notin QuickSkipNames
                    /\ StatOk(tree, Join(subPath, GitName))
         IN  (IF hit THEN <<subPath>> ELSE <<>>) \o
             QuickSubEntries(tree, entryPath, Tail(names))

\* one iteration of the loop over the workspace's entries (scanner.go:414-464)
QuickEntry(tree, root, name) ==
    LET entryPath == Join(root, name)
    IN  IF tree[entryPath] = "file" THEN <<>>
        ELSE IF HasPrefix(name, <<".">>) /\ name # GitName THEN <<>>
        ELSE IF StatOk(tree, Join(entryPath, GitName)) THEN <<entryPath>>
        ELSE IF StatOk(tree, Join(entryPath, HeadName)) /\
                StatOk(tree, Join(entryPath, RefsName)) THEN <<entryPath>>
        ELSE IF ~ReadDirOk(tree, entryPath) THEN <<>>
        ELSE QuickSubEntries(tree, entryPath, SortNames(ChildNames(tree, entryPath)))

RECURSIVE QuickEntries(_, _, _)
QuickEntries(tree, root, names) ==
    IF names = <<>> THEN <<>>
    ELSE QuickEntry(tree, root, Head(names)) \o QuickEntries(tree, root, Tail(names))

discoverReposQuick(tree, ctxDone, root) ==
    IF ~ReadDirOk(tree, root) THEN [repos |-> <<>>, err |-> "readdir"]
    ELSE LET names == SortNames(ChildNames(tree, root))
         IN  IF ctxDone /\ names # <<>> THEN [repos |-> <<>>, err |-> "ctx"]
             ELSE [repos |-> QuickEntries(tree, root, names), err |-> "nil"]

----------------------------------------------------------------------------
(* DiscoverReposIncremental, its detached tasks and its consumer *)

\* ctx of a detached task is the ctx of the call that spawned it: cancelled
\* during the call, or by the consumer when it finds the channel closed
TaskCtxDone(t) == ~t.live \/ inc.ctxDone

\* a store that first clears the records of the record's workspace, as the
\* merge of the full scans does
UpdateCacheRepoClearing(repos, repo) ==
    Put(Without(repos, {p \in DOMAIN repos :
                           repos[p].workspaceName = repo.workspaceName}),
        repo.path, repo)

\* a store that only inserts: a path already cached keeps its record
UpdateCacheRepoInsertOnly(repos, repo) ==
    IF repo.path \in DOMAIN repos THEN repos ELSE Put(repos, repo.path, repo)

\* enrichRepoMetadata's store (scanner.go:496-498) and UpdateCacheRepo
UpdateCacheRepo(repos, repo) == Put(repos, repo.path, repo)

\* the consumer starts an incremental scan; the tasks of the previous one
\* have returned
StartIncremental ==
    /\ Quiet
    /\ tasks = {}
    /\ calls < MaxCalls
    /\ calls' = calls + 1
    /\ \E i \in 1..Len(config) :
          inc' = [IdleInc EXCEPT !.pc = "quick", !.ws = config[i]]
    /\ UNCHANGED <<config, diskOk, fs, clock, cache, disk, scan, upd, tasks, enr, snap, mu>>

CancelInc ==
    /\ inc.pc \in {"quick", "loop", "closed"}
    /\ ~inc.ctxDone
    /\ inc' = [inc EXCEPT !.ctxDone = TRUE]
    /\ UNCHANGED <<config, diskOk, fs, clock, cache, disk, scan, upd, tasks, calls, enr, snap, mu>>

\* a producer whose selects have no ctx.Done() case: a plain results <- repo
ProducerSeesDoneNever(i) == FALSE

\* case <-ctx.Done() of the producer's two selects (scanner.go:367-371, 382-386)
ProducerSeesDone(i) == i.ctxDone

\* a producer written without the defer: it returns and leaves the channel open
DeferredCloseMissing(i) == i

\* defer close(results) (scanner.go:357), run when the producer returns;
\* closes counts the close calls made on the channel
DeferredClose(i) == [i EXCEPT !.closed = TRUE, !.closes = @ + 1]

\* scanner.go:360-363
QuickDiscover ==
    /\ inc.pc = "quick"
    /\ LET d == discoverReposQuick(fs, inc.ctxDone, inc.ws.path)
       IN  IF d.err # "nil"
           THEN inc' = DeferredClose([inc EXCEPT !.pc = "closed"])
           ELSE inc' = [inc EXCEPT !.pc = "loop", !.paths = d.repos]
    /\ UNCHANGED <<config, diskOk, fs, clock, cache, disk, scan, upd, tasks, calls, enr, snap, mu>>

\* one iteration of the send loop: the placeholder is sent and its
\* enrichment task spawned (scanner.go:366-390)
EmitRepo ==
    /\ inc.pc = "loop"
    /\ inc.paths # <<>>
    /\ ~ProducerSeesDone(inc)
    /\ Len(inc.ch) < IncBuffer
    /\ LET repo == Placeholder(Head(inc.paths), inc.ws.name, clock)
       IN  /\ inc' = [inc EXCEPT !.paths = Tail(@), !.ch = Append(@, repo)]
           /\ tasks' = tasks \cup {[repo |-> repo, pc |-> "spawned", live |-> TRUE]}
    /\ UNCHANGED <<config, diskOk, fs, clock, cache, disk, scan, upd, calls, enr, snap, mu>>

\* the producer returns (loop finished, or ctx.Done() seen) and the deferred
\* close runs
CloseStream ==
    /\ inc.pc = "loop"
    /\ inc.paths = <<>> \/ ProducerSeesDone(inc)
    /\ inc' = DeferredClose([inc EXCEPT !.pc = "closed", !.paths = <<>>])
    /\ UNCHANGED <<config, diskOk, fs, clock, cache, disk, scan, upd, tasks, calls, enr, snap, mu>>

\* incrementalScanNextCmd receives a placeholder and stores it
ConsumerRecv ==
    /\ inc.ch # <<>>
    /\ cache' = UpdateCacheRepo(cache, Head(inc.ch))
    /\ inc' = [inc EXCEPT !.ch = Tail(@)]
    /\ UNCHANGED <<config, diskOk, fs, clock, disk, scan, upd, tasks, calls, enr, snap, mu>>

\* incrementalScanNextCmd finds the channel closed: cancel, save, done
ConsumerFinish ==
    /\ inc.pc = "closed"
    /\ inc.ch = <<>>
    /\ disk' = SaveCache(cache, disk, diskOk)
    /\ inc' = IdleInc
    /\ tasks' = {[t EXCEPT !.live = FALSE] : t \in tasks}
    /\ UNCHANGED <<config, diskOk, fs, clock, cache, scan, upd, calls, enr, snap, mu>>

\* enrichRepoMetadata finds ctx cancelled and returns (scanner.go:472-476)
TaskSkip ==
    /\ \E t \in tasks :
          /\ t.pc = "spawned"
          /\ TaskCtxDone(t)
          /\ tasks' = tasks \ {t}
    /\ UNCHANGED <<config, diskOk, fs, clock, cache, disk, scan, upd, inc, calls, enr, snap, mu>>

\* enrichRepoMetadata runs its three queries (scanner.go:478-493)
TaskQuery ==
    /\ \E t \in tasks, q \in ScanAnswers :
          /\ t.pc = "spawned"
          /\ ~TaskCtxDone(t)
          /\ tasks' = (tasks \ {t}) \cup
                      {[t EXCEPT !.pc = "queried", !.repo = Enriched(t.repo, q)]}
    /\ UNCHANGED <<config, diskOk, fs, clock, cache, disk, scan, upd, inc, calls, enr, snap, mu>>

\* enrichRepoMetadata stores its record (scanner.go:496-498)
TaskStore ==
    /\ \E t \in tasks :
          /\ t.pc = "queried"
          /\ cache' = UpdateCacheRepo(cache, t.repo)
          /\ tasks' = tasks \ {t}
    /\ UNCHANGED <<config, diskOk, fs, clock, disk, scan, upd, inc, calls, enr, snap, mu>>

----------------------------------------------------------------------------

Next ==
    \/ Tick \/ RemoveDir \/ LockDir
    \/ StartScanAll \/ StartScanOne \/ CancelScan \/ DiscoverAll \/ DiscoverOne
    \/ WorkerCancelled \/ WorkerScan \/ Collect
    \/ MergeScan \/ SaveScan \/ ReceiveScan
    \/ UpdateRepoScan \/ UpdateRepoStore
    \/ StartIncremental \/ CancelInc \/ QuickDiscover \/ EmitRepo \/ CloseStream
    \/ ConsumerRecv \/ ConsumerFinish
    \/ TaskSkip \/ TaskQuery \/ TaskStore

Spec == Init /\ [][Next]_vars

----------------------------------------------------------------------------
(* Properties of the full scans *)

\* the step in which a full scan rewrites the cache
MergeStep == scan.pc = "merge" /\ scan'.pc = "save"

\* the cache records that carry workspace name w
EntriesOf(repos, w) ==
    {repos[p] : p \in {x \in DOMAIN repos : repos[x].workspaceName = w}}

\* the entry under path p is the same after the step as before it
Kept(p) == p \in DOMAIN cache' /\ cache'[p] = cache[p]

\* the workspaces the call in flight iterates over
WorkspacesOfCall == IF scan.kind = "all" THEN SeqToSet(config) ELSE {scan.ws}

\* the root is deleted, or is a directory that cannot be read
RootGone(tree, root) == root \notin DOMAIN tree \/ tree[root] # "dir"

\* the workspaces of the call whose root could not be walked, or whose
\* discovery ended with an error
FailedDiscovery ==
    {w \in WorkspacesOfCall :
        \/ RootGone(fs, w.path)
        \/ \E e \in SeqToSet(scan.errors) : e[1] = "workspace" /\ e[2] = w.name}

\* C1: when the discovery of workspace W fails during ScanWorkspaces or
\* ScanSingleWorkspace (its root deleted or unreadable included), the merge
\* leaves every cache entry of W as it was, and W is not in the set of
\* successfully scanned workspaces.
C1_FailedDiscoveryKeepsEntries ==
    [][MergeStep =>
          \A w \in FailedDiscovery :
             /\ w.name \notin scan.successful
             /\ \A p \in DOMAIN cache :
                   cache[p].workspaceName = w.name => Kept(p)]_vars

\* C2: the merge of ScanWorkspaces leaves, for every successfully scanned
\* workspace W, exactly the records this call produced for W as the cache
\* entries named W, and leaves the entries of every other configured
\* workspace as they were.
C2_ScanAllReplacesWholesale ==
    [][(MergeStep /\ scan.kind = "all") =>
          \A w \in SeqToSet(config) :
             IF w.name \in scan.successful
             THEN EntriesOf(cache', w.name) =
                     {pr[2] : pr \in {x \in scan.produced : x[1] = w.name}}
             ELSE /\ EntriesOf(cache', w.name) = EntriesOf(cache, w.name)
                  /\ \A p \in DOMAIN cache :
                        cache[p].workspaceName = w.name => Kept(p)]_vars

\* C3: the merge of a full scan changes or deletes a cache entry only on
\* behalf of the entry's own workspace: ScanSingleWorkspace(W) keeps every
\* entry named otherwise, and in ScanWorkspaces an entry named W2 is deleted
\* only when W2 was scanned and replaced only by a record W2's iteration
\* produced.
C3_OtherWorkspacesUntouched ==
    [][MergeStep =>
          \A p \in DOMAIN cache :
             LET w2 == cache[p].workspaceName
             IN  \/ Kept(p)
                 \/ scan.kind = "one" /\ w2 = scan.ws.name
                 \/ /\ scan.kind = "all"
                    /\ w2 \in scan.successful
                    /\ p \in DOMAIN cache' => <<w2, cache'[p]>> \in scan.produced]_vars

\* C4: every path the discovery of this call returned for a workspace is a
\* key of the cache after the merge, whatever happened while its records
\* were enriched.
C4_FoundPathsStayCached ==
    [][MergeStep => \A f \in scan.found : f[2] \in DOMAIN cache']_vars

----------------------------------------------------------------------------
(* Properties of the incremental path, of UpdateRepo and of the stores *)

\* a step of DiscoverReposIncremental, of its consumer or of a detached task
IncrementalStep ==
    \/ StartIncremental \/ CancelInc \/ QuickDiscover \/ EmitRepo \/ CloseStream
    \/ ConsumerRecv \/ ConsumerFinish
    \/ TaskSkip \/ TaskQuery \/ TaskStore

\* C5: no step of the incremental path (producer, consumer's
\* UpdateCacheRepo, detached enrichment task) removes a key of the cache.
C5_IncrementalOnlyUpserts ==
    [][IncrementalStep => DOMAIN cache \subseteq DOMAIN cache']_vars

\* an incremental scan has delivered all it found, and the cache holds a
\* record of its workspace that the quick scan did not find
C5_MissedRepoStillCached ==
    /\ inc.pc = "closed"
    /\ inc.ch = <<>>
    /\ ~inc.ctxDone
    /\ \E p \in DOMAIN cache :
          /\ cache[p].workspaceName = inc.ws.name
          /\ p \notin SeqToSet(discoverReposQuick(fs, FALSE, inc.ws.path).repos)

\* C7: the record UpdateRepo stores is always built from three fresh
\* queries, whatever the age of the cached record of the path.
C7_RefreshBypassesStaleness ==
    upd.pc = "store" => upd.queries = 3

\* no task of tasks' works on the path of task t: t has returned
Returned(t) == \A u \in tasks' : u.repo.path # t.repo.path

\* C8: every enrichment ends with its record stored, also a detached task
\* whose spawner has returned or whose ctx is cancelled: no detached task
\* returns without having run its queries and stored their record.
C8_EveryTaskStores ==
    [][\A t \in tasks :
          Returned(t) =>
             /\ t.pc = "queried"
             /\ t.repo.path \in DOMAIN cache'
             /\ cache'[t.repo.path] = t.repo]_vars

\* C8, amended: every enrichment that has produced a record stores it. The
\* merge of a full scan leaves under each path a worker returned a record
\* for a record this call produced for it; UpdateRepo stores the record
\* scanRepo returned; a detached task that has run its queries stores their
\* record, whether or not its spawner has returned or its ctx has been
\* cancelled since.
C8_ProducedRecordIsStored ==
    [][/\ MergeStep =>
             \A pr \in scan.produced :
                /\ pr[2].path \in DOMAIN cache'
                /\ \E pr2 \in scan.produced : cache'[pr[2].path] = pr2[2]
       /\ (upd.pc = "store" /\ upd'.pc = "idle") =>
             /\ upd.path \in DOMAIN cache'
             /\ cache'[upd.path] = upd.repo
       /\ \A t \in tasks :
             (t.pc = "queried" /\ Returned(t)) =>
                /\ t.repo.path \in DOMAIN cache'
                /\ cache'[t.repo.path] = t.repo]_vars

\* ScanSingleWorkspace has merged and left no record of its workspace, and
\* the cache holds one: a detached task of the incremental scan that was over
\* before this call began (its producer returned, its ctx cancelled by the
\* consumer) has stored its record since
C8_StoredAfterSpawnerReturned ==
    /\ scan.pc = "save"
    /\ scan.kind = "one"
    /\ \E p \in DOMAIN cache :
          /\ cache[p].workspaceName = scan.ws.name
          /\ cache[p].hasUpstream
          /\ \A i \in 1..Len(scan.allRepos) : scan.allRepos[i].path # p

----------------------------------------------------------------------------
(* scanRepo on its own: SpecEnrich calls it twice on one path, over the
   ages of the cached record and every answer of the three queries *)

MaxAge == 1                         \* age of the loaded record at the start
EnrichPath == <<NmW, NmX>>
WorkspaceNames == {"outer", "inner"}

\* the caches LoadRepoCache may return: no record of EnrichPath, or one
\* scanned up to MaxAge before the start
EnrichCaches ==
    {EmptyMap} \cup
    {Put(EmptyMap, EnrichPath, Enriched(Placeholder(EnrichPath, w, 0 - age), q)) :
        w \in WorkspaceNames, age \in 0..MaxAge, q \in ScanAnswers}

InitEnrich ==
    /\ config = NestedConfig
    /\ fs = Tree0
    /\ clock = 0
    /\ cache \in EnrichCaches
    /\ disk = cache
    /\ diskOk = TRUE
    /\ scan = IdleScan
    /\ upd = IdleUpd
    /\ inc = IdleInc
    /\ tasks = {}
    /\ calls = 0
    /\ enr = NoEnr
    /\ snap = NoSnap
    /\ mu = Unlocked

\* the call of scanRepo on EnrichPath that enr records
Called(ctxDone, q, w) ==
    [n |-> enr.n + 1, ctxDone |-> ctxDone, q |-> q,
     workspaceName |-> w, before |-> cache, now |-> clock,
     last |-> scanRepo(cache, clock, ctxDone, EnrichPath, w, q),
     prev |-> enr.last, stored |-> FALSE]

\* the first call, over every answer of the three queries
EnrichCall ==
    /\ enr.n = 0
    /\ \E ctxDone \in BOOLEAN, q \in AllAnswers, w \in WorkspaceNames :
          enr' = Called(ctxDone, q, w)
    /\ UNCHANGED <<config, diskOk, fs, clock, cache, disk, scan, upd, inc, tasks, calls, snap, mu>>

\* the second call
EnrichAgain ==
    /\ enr.n = 1
    /\ \E ctxDone \in BOOLEAN, q \in ScanAnswers, w \in WorkspaceNames :
          enr' = Called(ctxDone, q, w)
    /\ UNCHANGED <<config, diskOk, fs, clock, cache, disk, scan, upd, inc, tasks, calls, snap, mu>>

\* the caller stores the record scanRepo returned, as UpdateRepo and the
\* merges do
EnrichStore ==
    /\ enr.n >= 1
    /\ ~enr.stored
    /\ enr.last.err = "nil"
    /\ cache' = Put(cache, enr.last.repo.path, enr.last.repo)
    /\ enr' = [enr EXCEPT !.stored = TRUE]
    /\ UNCHANGED <<config, diskOk, fs, clock, disk, scan, upd, inc, tasks, calls, snap, mu>>

NextEnrich == Tick \/ EnrichCall \/ EnrichAgain \/ EnrichStore

SpecEnrich == InitEnrich /\ [][NextEnrich]_vars

\* the last call ran with a live ctx on a record younger than the threshold
LastCallFresh ==
    /\ enr.n >= 1
    /\ ~enr.ctxDone
    /\ EnrichPath \in DOMAIN enr.before
    /\ enr.now - enr.before[EnrichPath].lastScanned < StalenessThreshold

\* the last call ran with a live ctx and found no record, or one as old as
\* the threshold or older
LastCallStale ==
    /\ enr.n >= 1
    /\ ~enr.ctxDone
    /\ EnrichPath \in DOMAIN enr.before =>
          enr.now - enr.before[EnrichPath].lastScanned >= StalenessThreshold

\* C6: scanRepo on a path whose cached record is younger than 5 minutes
\* issues no query and returns the cached record, every field as cached;
\* and a second call within the window of the record the first one returned
\* returns the identical record.
C6_FreshHitIsFree ==
    /\ LastCallFresh =>
          /\ enr.last.err = "nil"
          /\ enr.last.queries = 0
          /\ enr.last.repo = enr.before[EnrichPath]
    /\ (LastCallFresh /\ enr.n = 2 /\ enr.prev.err = "nil"
           /\ enr.before[EnrichPath] = enr.prev.repo) =>
          /\ enr.last.repo = enr.prev.repo
          /\ enr.last.queries = 0

\* the first call queried, its record was stored, time passed, and the
\* second call, still within the window, returned the same record for free
C6_SecondCallWithinWindow ==
    /\ enr.n = 2
    /\ ~enr.ctxDone
    /\ enr.prev.queries = 3
    /\ enr.last.queries = 0
    /\ enr.last.repo = enr.prev.repo
    /\ enr.now > enr.prev.repo.lastScanned

\* C9: on a stale or absent record scanRepo issues the three queries and
\* returns a record without error for every combination of their outcomes:
\* each field is the answer of its own query when that query succeeded and
\* the zero value when it failed, and path, name and workspaceName are set.
C9_QueriesAreIndependent ==
    LastCallStale =>
       LET r == enr.last.repo
           q == enr.q
       IN  /\ enr.last.err = "nil"
           /\ enr.last.queries = 3
           /\ r.path = EnrichPath
           /\ r.name = NmX
           /\ r.workspaceName = enr.workspaceName
           /\ r.branch = (IF q.b.err THEN "" ELSE q.b.branch)
           /\ r.hasUpstream = q.ab.ok
           /\ r.ahead = (IF q.ab.ok THEN q.ab.ahead ELSE 0)
           /\ r.behind = (IF q.ab.ok THEN q.ab.behind ELSE 0)
           /\ r.lastCommitTime = (IF ~q.c.err /\ q.c.commits # <<>>
                                  THEN q.c.commits[1] ELSE ZeroTime)

\* a stale record that had a branch is enriched again: the branch query
\* fails and the two others succeed
C9_BranchFailsOthersSucceed ==
    /\ LastCallStale
    /\ EnrichPath \in DOMAIN enr.before
    /\ enr.before[EnrichPath].branch = "main"
    /\ enr.q.b.err
    /\ enr.q.ab.ok
    /\ ~enr.q.c.err /\ enr.q.c.commits # <<>>
    /\ enr.last.repo.branch = ""
    /\ enr.last.repo.hasUpstream
    /\ enr.last.repo.lastCommitTime = enr.q.c.commits[1]

----------------------------------------------------------------------------
(* GetCachedRepos on its own: SpecSort takes snapshots of a cache that
   does not change *)

MaxSnapshots == 2
NmA == <<"a">>
SortPaths == RepoPaths \cup {<<NmW, NmIn>>, <<NmW, NmA>>}
SortTimes == {ZeroTime} \cup CommitTimes

\* a comparison that puts the older commit first
lessOldestFirst(a, b) ==
    IF a.lastCommitTime # ZeroTime /\ b.lastCommitTime # ZeroTime
    THEN a.lastCommitTime < b.lastCommitTime
    ELSE IF a.lastCommitTime # ZeroTime /\ b.lastCommitTime = ZeroTime THEN TRUE
    ELSE IF a.lastCommitTime = ZeroTime /\ b.lastCommitTime # ZeroTime THEN FALSE
    ELSE StrLess(a.name, b.name)

\* the comparison handed to sort.Slice (scanner.go:110-124)
less(a, b) ==
    IF a.lastCommitTime # ZeroTime /\ b.lastCommitTime # ZeroTime
    THEN a.lastCommitTime > b.lastCommitTime
    ELSE IF a.lastCommitTime # ZeroTime /\ b.lastCommitTime = ZeroTime THEN TRUE
    ELSE IF a.lastCommitTime = ZeroTime /\ b.lastCommitTime # ZeroTime THEN FALSE
    ELSE StrLess(a.name, b.name)

\* the orders in which ranging over a map may yield the values of S
RECURSIVE Orders(_)
Orders(S) ==
    IF S = {} THEN {<<>>}
    ELSE UNION {{<<x>> \o o : o \in Orders(S \ {x})} : x \in S}

\* sort.Slice on a slice this short is an insertion sort: x, appended to the
\* sorted s, moves left while it compares less than its left neighbour
RECURSIVE InsertSorted(_, _)
InsertSorted(s, x) ==
    IF s # <<>> /\ less(x, s[Len(s)])
    THEN Append(InsertSorted(SubSeq(s, 1, Len(s) - 1), x), s[Len(s)])
    ELSE Append(s, x)

RECURSIVE SortSlice(_)
SortSlice(o) ==
    IF o = <<>> THEN <<>>
    ELSE InsertSorted(SortSlice(SubSeq(o, 1, Len(o) - 1)), o[Len(o)])

\* GetCachedRepos: the values of the map in the order of the range loop,
\* then sorted
GetCachedRepos(repos) ==
    {SortSlice(o) : o \in Orders({repos[p] : p \in DOMAIN repos})}

\* the caches of SpecSort: any of SortPaths, with or without a commit time
SortCaches ==
    UNION {[P -> SortTimes] : P \in SUBSET SortPaths}

InitSort ==
    /\ config = NestedConfig
    /\ fs = Tree0
    /\ clock = 0
    /\ \E t \in SortCaches :
          cache = [p \in DOMAIN t |->
                      [Placeholder(p, "outer", 0) EXCEPT !.lastCommitTime = t[p]]]
    /\ disk = cache
    /\ diskOk = TRUE
    /\ scan = IdleScan
    /\ upd = IdleUpd
    /\ inc = IdleInc
    /\ tasks = {}
    /\ calls = 0
    /\ enr = NoEnr
    /\ snap = NoSnap
    /\ mu = Unlocked

\* a read lock that is granted whatever the state of the mutex
RLockUnguarded(m) == TRUE

\* s.mu.RLock() and s.mu.Lock() return: no writer holds the mutex (readers
\* hold it within one step only)
RLock(m) == ~m.writer
Lock(m) == ~m.writer

\* what ranging over the map can yield while another goroutine writes it (a
\* data race): any of the records may come back with part of its fields
TornReads(repos) ==
    UNION {GetCachedRepos([p \in DOMAIN repos |->
                             IF p \in T
                             THEN [repos[p] EXCEPT !.workspaceName = "", !.branch = ""]
                             ELSE repos[p]]) : T \in SUBSET DOMAIN repos}

\* one call of GetCachedRepos; snap holds what the calls returned
Snapshot ==
    /\ Len(snap) < MaxSnapshots
    /\ RLock(mu)
    /\ \E o \in (IF mu.writer THEN TornReads(cache) ELSE GetCachedRepos(cache)) :
          snap' = Append(snap, o)
    /\ UNCHANGED <<config, diskOk, fs, clock, cache, disk, scan, upd, inc, tasks, calls, enr, mu>>

NextSort == Snapshot

SpecSort == InitSort /\ [][NextSort]_vars

\* C10: the calls of GetCachedRepos on an unchanged cache all return the
\* same sequence (as they do when the comparison orders every two different
\* records one way or the other).
C10_SnapshotIsDeterministic ==
    \A i, j \in 1..Len(snap) : snap[i] = snap[j]

\* the records of a snapshot with and without a commit time
Timed(r) == r.lastCommitTime # ZeroTime

\* C11: in every sequence GetCachedRepos returns the records with a commit
\* time come before those without, the commit times never increase, the
\* names of the records without a commit time never decrease, and every
\* cached path occurs exactly once.
C11_SnapshotOrder ==
    \A n \in 1..Len(snap) :
       LET o == snap[n]
       IN  /\ Len(o) = Cardinality(DOMAIN cache)
           /\ {o[i].path : i \in 1..Len(o)} = DOMAIN cache
           /\ \A i \in 1..Len(o) : o[i] = cache[o[i].path]
           /\ \A i, j \in 1..Len(o) :
                 i < j =>
                    /\ Timed(o[j]) => Timed(o[i])
                    /\ (Timed(o[i]) /\ Timed(o[j])) =>
                          o[i].lastCommitTime >= o[j].lastCommitTime
                    /\ (~Timed(o[i]) /\ ~Timed(o[j])) =>
                          ~StrLess(o[j].name, o[i].name)

\* the snapshot of A (time 10), B (time 20), C (no time, "in") and
\* D (no time, "x") is B, A, C, D
C11_FourRecordsInOrder ==
    /\ Len(snap) >= 1
    /\ Len(snap[1]) = Cardinality(SortPaths)
    /\ snap[1][1].path = <<NmW, NmIn, NmX>> /\ snap[1][1].lastCommitTime = 20
    /\ snap[1][2].path = <<NmW, NmA>> /\ snap[1][2].lastCommitTime = 10
    /\ snap[1][3].path = <<NmW, NmIn>> /\ ~Timed(snap[1][3])
    /\ snap[1][4].path = <<NmW, NmX>> /\ ~Timed(snap[1][4])

----------------------------------------------------------------------------
(* The locked section of ScanWorkspaces step by step, with GetCachedRepos
   running beside it: SpecMerge *)

\* records an earlier scan left, stale by now, and records this scan returned
MergeOld(p) ==
    {Enriched(Placeholder(p, w, 0 - StalenessThreshold), AnswersOk) : w \in WorkspaceNames}
MergeNew(successful) ==
    {Enriched(Placeholder(p, w, 0), q) :
        p \in RepoPaths, w \in successful, q \in ScanAnswers}

\* the allRepos of a call that scanned the workspaces of successful
MergeResults(successful) ==
    {<<>>} \cup {<<r>> : r \in MergeNew(successful)} \cup
    {<<r[1], r[2]>> : r \in {x \in MergeNew(successful) \X MergeNew(successful) : x[1] # x[2]}}

\* ScanWorkspaces has left its workspace loop and is about to take the lock
InitMerge ==
    /\ config = NestedConfig
    /\ fs = Tree0
    /\ clock = 0
    /\ \E P \in SUBSET RepoPaths :
          \E c \in [P -> UNION {MergeOld(p) : p \in RepoPaths}] :
             /\ \A p \in P : c[p] \in MergeOld(p)
             /\ cache = c
    /\ disk = cache
    /\ diskOk = TRUE
    /\ \E successful \in SUBSET WorkspaceNames :
          \E rs \in MergeResults(successful) :
             scan = [IdleScan EXCEPT !.pc = "merge", !.kind = "all",
                                     !.idx = Len(config) + 1,
                                     !.successful = successful,
                                     !.allRepos = rs, !.before = cache]
    /\ upd = IdleUpd
    /\ inc = IdleInc
    /\ tasks = {}
    /\ calls = 1
    /\ enr = NoEnr
    /\ snap = NoSnap
    /\ mu = Unlocked

\* a merge that starts its loops without taking the lock
MergeLockMissing ==
    /\ scan.pc = "merge"
    /\ scan' = [scan EXCEPT !.pc = "deleting"]
    /\ UNCHANGED <<config, diskOk, fs, clock, cache, disk, upd, inc, tasks, calls, enr, snap, mu>>

\* s.mu.Lock() (scanner.go:64)
MergeLock ==
    /\ scan.pc = "merge"
    /\ Lock(mu)
    /\ mu' = [writer |-> TRUE]
    /\ scan' = [scan EXCEPT !.pc = "deleting"]
    /\ UNCHANGED <<config, diskOk, fs, clock, cache, disk, upd, inc, tasks, calls, enr, snap>>

\* one iteration of the delete loop that deletes, or its end (scanner.go:67-71)
MergeDelete ==
    /\ scan.pc = "deleting"
    /\ LET old == {p \in DOMAIN cache : cache[p].workspaceName \in scan.successful}
       IN  IF old = {}
           THEN /\ scan' = [scan EXCEPT !.pc = "putting", !.scanned = scan.allRepos]
                /\ cache' = cache
           ELSE /\ \E p \in old : cache' = Without(cache, {p})
                /\ scan' = scan
    /\ UNCHANGED <<config, diskOk, fs, clock, disk, upd, inc, tasks, calls, enr, snap, mu>>

\* one iteration of the loop over allRepos (scanner.go:74-76)
MergePut ==
    /\ scan.pc = "putting"
    /\ scan.scanned # <<>>
    /\ cache' = Put(cache, Head(scan.scanned).path, Head(scan.scanned))
    /\ scan' = [scan EXCEPT !.scanned = Tail(@)]
    /\ UNCHANGED <<config, diskOk, fs, clock, disk, upd, inc, tasks, calls, enr, snap, mu>>

\* s.mu.Unlock() (scanner.go:77)
MergeUnlock ==
    /\ scan.pc = "putting"
    /\ scan.scanned = <<>>
    /\ mu' = Unlocked
    /\ scan' = [scan EXCEPT !.pc = "save"]
    /\ UNCHANGED <<config, diskOk, fs, clock, cache, disk, upd, inc, tasks, calls, enr, snap>>

NextMerge == MergeLock \/ MergeDelete \/ MergePut \/ MergeUnlock \/ Snapshot

SpecMerge == InitMerge /\ [][NextMerge]_vars

\* the stepwise merge ends with the cache that MergeAll computes
MergeStepsAreMergeAll ==
    scan.pc = "save" => cache = MergeAll(scan.before, scan.successful, scan.allRepos)

----------------------------------------------------------------------------
(* The channel of DiscoverReposIncremental *)

\* C13: whichever way the producer of DiscoverReposIncremental returns (the
\* loop is finished, quick discovery failed, ctx was cancelled), the step
\* that returns closes the channel, the channel is never closed a second
\* time, it is open as long as the producer runs, and nothing is sent on it
\* once it is closed.
C13_ClosedOnceNoSendAfter ==
    [][/\ (inc.pc \in {"quick", "loop"} /\ inc'.pc \notin {"quick", "loop"})
             => (inc'.pc = "closed" /\ inc'.closed /\ inc.closes = 0 /\ inc'.closes = 1)
       /\ inc'.pc \in {"quick", "loop"} => (~inc'.closed /\ inc'.closes = 0)
       /\ inc'.pc = "closed" => (inc'.closed /\ inc'.closes = 1)
       /\ inc'.closes <= 1
       /\ (inc.closed /\ inc'.closed) => Len(inc'.ch) <= Len(inc.ch)]_vars

\* the producer returned on a cancelled ctx with placeholders it had sent
\* still in the channel
C13_ClosedOnCancelWithBacklog ==
    /\ inc.pc = "closed"
    /\ inc.ctxDone
    /\ inc.closes = 1
    /\ inc.ch # <<>>

----------------------------------------------------------------------------
(* The send loop on a full channel: SpecStream *)

LiveTasks == 2      \* tasks that have not been seen to return when SpecStream starts

\* one repository more than the channel buffers
StreamNames == <<"a", "b", "c", "d", "e", "f", "g", "i", "l", "m", "n", "o", "r", "s">>
StreamPaths == [k \in 1..(IncBuffer + 1) |-> <<NmW, <<StreamNames[k]>>>>]
StreamTree ==
    [p \in {<<NmW>>} \cup {StreamPaths[k] : k \in 1..(IncBuffer + 1)}
           \cup {Join(StreamPaths[k], GitName) : k \in 1..(IncBuffer + 1)} |-> "dir"]
StreamSent == [k \in 1..IncBuffer |-> Placeholder(StreamPaths[k], "outer", 0)]

\* what has become of the task of the k-th placeholder
StreamTaskStates(k) ==
    {[repo |-> StreamSent[k], pc |-> "spawned", live |-> TRUE]} \cup
    {[repo |-> Enriched(StreamSent[k], q), pc |-> pc, live |-> TRUE] :
        q \in ScanAnswers, pc \in {"queried", "returned"}}

\* the producer has sent IncBuffer placeholders, none has been received, one
\* path is left to send; the tasks of the last LiveTasks placeholders are
\* anywhere in their run, the earlier ones have stored their records
InitStream ==
    /\ config = <<[name |-> "outer", path |-> <<NmW>>]>>
    /\ fs = StreamTree
    /\ clock = 0
    /\ disk = EmptyMap
    /\ diskOk = TRUE
    /\ scan = IdleScan
    /\ upd = IdleUpd
    /\ inc = [IdleInc EXCEPT !.pc = "loop", !.ws = config[1],
                             !.paths = <<StreamPaths[IncBuffer + 1]>>,
                             !.ch = StreamSent]
    /\ LET early == 1..(IncBuffer - LiveTasks)
           late == (IncBuffer - LiveTasks + 1)..IncBuffer
       IN  \E st \in [late -> UNION {StreamTaskStates(k) : k \in late}] :
              /\ \A k \in late : st[k] \in StreamTaskStates(k)
              /\ tasks = {st[k] : k \in {j \in late : st[j].pc # "returned"}}
              /\ cache = [p \in {StreamPaths[k] : k \in early \cup {j \in late : st[j].pc = "returned"}} |->
                            LET k == CHOOSE j \in 1..IncBuffer : StreamPaths[j] = p
                            IN  IF k \in early THEN Enriched(StreamSent[k], AnswersOk)
                                ELSE st[k].repo]
    /\ calls = 1
    /\ enr = NoEnr
    /\ snap = NoSnap
    /\ mu = Unlocked

NextStream ==
    \/ CancelInc \/ EmitRepo \/ CloseStream
    \/ ConsumerRecv \/ ConsumerFinish
    \/ TaskSkip \/ TaskQuery \/ TaskStore

\* the producer goroutine and the task goroutines are scheduled, and each
\* git query of a task ends within its own timeout (git.go:73, 94); nothing
\* is assumed of the consumer or of the cancellation
SpecStream ==
    /\ InitStream
    /\ [][NextStream]_vars
    /\ WF_vars(EmitRepo)
    /\ WF_vars(CloseStream)
    /\ WF_vars(TaskSkip)
    /\ WF_vars(TaskQuery)
    /\ WF_vars(TaskStore)

\* C14: once the ctx of a DiscoverReposIncremental in flight is cancelled,
\* the producer eventually returns with the channel closed and all detached
\* enrichment tasks eventually return, whether or not the consumer receives
\* anything more.
C14_CancelledStreamWindsDown ==
    /\ (inc.pc \in {"quick", "loop"} /\ inc.ctxDone) ~> (inc.pc = "closed" /\ inc.closed)
    /\ (inc.pc \in {"quick", "loop"} /\ inc.ctxDone) ~> (tasks = {})

\* the producer returned on the cancelled ctx from a full channel of which
\* the consumer has received nothing, one path unsent, and no task is left
C14_ClosedOnFullChannel ==
    /\ inc.pc = "closed"
    /\ inc.ctxDone
    /\ inc.ch = StreamSent
    /\ StreamPaths[IncBuffer + 1] \notin DOMAIN cache
    /\ tasks = {}

----------------------------------------------------------------------------
(* The workers of scanRepos one step at a time: SpecPool *)

LiveWorkers == 2    \* workers still at their select when SpecPool starts

\* a semaphore channel without a capacity: every send goes through
SemaphoreFreeAlways(sem) == TRUE

\* a semaphore channel that takes nothing: every send waits
SemaphoreNeverFree(sem) == FALSE

\* semaphore <- struct{}{} is ready (scanner.go:188, 196)
SemaphoreFree(sem) == sem < SemaphoreWidth

\* the git queries of SpecPool all succeed
PoolAnswers == {AnswersOk}

PoolCount == SemaphoreWidth - 1 + LiveWorkers
PoolPaths == [k \in 1..PoolCount |-> <<NmW, <<StreamNames[k]>>>>]
PoolTree ==
    [p \in {<<NmW>>} \cup {PoolPaths[k] : k \in 1..PoolCount}
           \cup {Join(PoolPaths[k], GitName) : k \in 1..PoolCount} |-> "dir"]

\* scanRepos runs on more repositories than the semaphore is wide: all
\* workers but LiveWorkers hold a slot and have sent their result, the
\* others are at their select with one slot free
InitPool ==
    /\ config = <<[name |-> "outer", path |-> <<NmW>>]>>
    /\ fs = PoolTree
    /\ clock = 0
    /\ cache = EmptyMap
    /\ disk = EmptyMap
    /\ diskOk = TRUE
    /\ scan = [IdleScan EXCEPT
                 !.pc = "enrich", !.kind = "one", !.ws = config[1],
                 !.found = {<<"outer", PoolPaths[k]>> : k \in 1..PoolCount},
                 !.waiting = {PoolPaths[k] : k \in 1..PoolCount},
                 !.scanned = [k \in 1..(SemaphoreWidth - 1) |->
                                scanRepo(cache, clock, FALSE, PoolPaths[k], "outer", AnswersOk).repo],
                 !.pool = [p \in {PoolPaths[k] : k \in 1..PoolCount} |->
                             IF \E k \in 1..(SemaphoreWidth - 1) : p = PoolPaths[k]
                             THEN [pc |-> "sent", released |-> 0]
                             ELSE [pc |-> "select", released |-> 0]],
                 !.sem = SemaphoreWidth - 1]
    /\ upd = IdleUpd
    /\ inc = IdleInc
    /\ tasks = {}
    /\ calls = 1
    /\ enr = NoEnr
    /\ snap = NoSnap
    /\ mu = Unlocked

\* case semaphore <- struct{}{} (scanner.go:196-197)
PoolAcquire ==
    /\ scan.pc = "enrich"
    /\ SemaphoreFree(scan.sem)
    /\ \E p \in DOMAIN scan.pool :
          /\ scan.pool[p].pc = "select"
          /\ scan' = [scan EXCEPT !.pool[p].pc = "holding", !.sem = @ + 1]
    /\ UNCHANGED <<config, diskOk, fs, clock, cache, disk, upd, inc, tasks, calls, enr, snap, mu>>

\* case <-ctx.Done(): return, then wg.Done() (scanner.go:198-199, 193)
PoolCancelled ==
    /\ scan.pc = "enrich"
    /\ scan.ctxDone
    /\ \E p \in DOMAIN scan.pool :
          /\ scan.pool[p].pc = "select"
          /\ scan' = [scan EXCEPT !.pool[p].pc = "returned", !.waiting = @ \ {p}]
    /\ UNCHANGED <<config, diskOk, fs, clock, cache, disk, upd, inc, tasks, calls, enr, snap, mu>>

\* scanRepo and the send of its result, which the collector keeps when
\* there is no error (scanner.go:202-203, 213-218)
PoolScan ==
    /\ scan.pc = "enrich"
    /\ \E p \in DOMAIN scan.pool, q \in PoolAnswers :
          /\ scan.pool[p].pc = "holding"
          /\ LET r == scanRepo(cache, clock, scan.ctxDone, p, scan.ws.name, q)
             IN  scan' = [scan EXCEPT
                     !.pool[p].pc = "sent",
                     !.scanned = IF r.err = "nil" THEN Append(@, r.repo) ELSE @,
                     !.produced = IF r.err = "nil"
                                  THEN @ \cup {<<scan.ws.name, r.repo>>} ELSE @]
    /\ UNCHANGED <<config, diskOk, fs, clock, cache, disk, upd, inc, tasks, calls, enr, snap, mu>>

\* the deferred <-semaphore, then wg.Done() (scanner.go:197, 193)
PoolRelease ==
    /\ scan.pc = "enrich"
    /\ \E p \in DOMAIN scan.pool :
          /\ scan.pool[p].pc = "sent"
          /\ scan' = [scan EXCEPT !.pool[p].pc = "returned",
                                  !.pool[p].released = @ + 1,
                                  !.sem = @ - 1,
                                  !.waiting = @ \ {p}]
    /\ UNCHANGED <<config, diskOk, fs, clock, cache, disk, upd, inc, tasks, calls, enr, snap, mu>>

NextPool ==
    \/ CancelScan \/ PoolAcquire \/ PoolCancelled \/ PoolScan \/ PoolRelease
    \/ Collect

SpecPool == InitPool /\ [][NextPool]_vars

\* the workers past the semaphore: slot taken, deferred release not yet run
PastSemaphore == {p \in DOMAIN scan.pool : scan.pool[p].pc \in {"holding", "sent"}}

\* C15: within one scanRepos at most 10 workers are past the semaphore at
\* any moment, however many repositories there are; a worker that took a
\* slot and has returned released it exactly once, and a worker that took
\* none released none.
C15_AtMostTenPastSemaphore ==
    /\ [](/\ Cardinality(PastSemaphore) <= SemaphoreWidth
          /\ scan.sem = Cardinality(PastSemaphore)
          /\ \A p \in DOMAIN scan.pool :
                /\ scan.pool[p].pc \in {"select", "holding", "sent"}
                      => scan.pool[p].released = 0
                /\ scan.pool[p].pc = "returned" => scan.pool[p].released \in {0, 1})
    /\ [][\A p \in DOMAIN scan.pool :
             /\ (scan.pool[p].pc = "sent" /\ scan'.pool[p].pc = "returned")
                   => scan'.pool[p].released = 1
             /\ (scan.pool[p].pc = "select" /\ scan'.pool[p].pc = "returned")
                   => scan'.pool[p].released = 0
             /\ scan.pool[p].pc = "returned" => scan'.pool[p] = scan.pool[p]]_vars

\* the semaphore is full while a further worker waits at its select
C15_TenHoldOneWaits ==
    /\ scan.pc = "enrich"
    /\ Cardinality(PastSemaphore) = SemaphoreWidth
    /\ \E p \in DOMAIN scan.pool : scan.pool[p].pc = "select"

----------------------------------------------------------------------------
(* The detached tasks of a long send loop: SpecBurst *)

\* the consumer has received the IncBuffer placeholders sent so far, their
\* tasks have run their queries and wait to store, one path is left to send
InitBurst ==
    /\ config = <<[name |-> "outer", path |-> <<NmW>>]>>
    /\ fs = StreamTree
    /\ clock = 0
    /\ cache = [p \in {StreamPaths[k] : k \in 1..IncBuffer} |->
                  StreamSent[CHOOSE k \in 1..IncBuffer : StreamPaths[k] = p]]
    /\ disk = EmptyMap
    /\ diskOk = TRUE
    /\ scan = IdleScan
    /\ upd = IdleUpd
    /\ inc = [IdleInc EXCEPT !.pc = "loop", !.ws = config[1],
                             !.paths = <<StreamPaths[IncBuffer + 1]>>]
    /\ tasks = {[repo |-> Enriched(StreamSent[k], AnswersOk), pc |-> "queried",
                 live |-> TRUE] : k \in 1..IncBuffer}
    /\ calls = 1
    /\ enr = NoEnr
    /\ snap = NoSnap
    /\ mu = Unlocked

SpecBurst == InitBurst /\ [][NextStream]_vars

\* C16: the enrichment tasks in flight at one moment never exceed 10, the
\* detached tasks of DiscoverReposIncremental included.
C16_TasksWithinSemaphoreWidth == Cardinality(tasks) <= SemaphoreWidth

----------------------------------------------------------------------------
(* What ScanWorkspaces and ScanSingleWorkspace hand to their caller *)

\* the workspaces whose discovery failed in the call in flight, in the order
\* of their entries in errors
RECURSIVE FailedWorkspaces(_)
FailedWorkspaces(errors) ==
    IF errors = <<>> THEN <<>>
    ELSE IF Head(errors)[1] = "workspace"
         THEN <<Head(errors)[2]>> \o FailedWorkspaces(Tail(errors))
         ELSE FailedWorkspaces(Tail(errors))

\* ScanWorkspaces has returned after some discoveries failed and others did not
PartlyFailed ==
    /\ scan.pc = "done"
    /\ scan.kind = "all"
    /\ FailedWorkspaces(scan.errors) # <<>>
    /\ scan.successful # {}

\* C17: when ScanWorkspaces ends with some workspaces failed and others
\* scanned, the caller receives a result with a non-nil error that holds
\* every record scanned in a successful workspace, and the cache holds those
\* records too.
C17_PartialFailureReturnsFound ==
    PartlyFailed =>
       /\ scan.result.sent
       /\ scan.result.err # <<>>
       /\ \A x \in scan.produced :
             /\ x[2] \in SeqToSet(scan.result.repos)
             /\ x[2].path \in DOMAIN cache

\* the same, for the calls whose final select took the send
C17_DeliveredPartialFailure ==
    (PartlyFailed /\ scan.result.sent) =>
       /\ scan.result.err # <<>>
       /\ \A x \in scan.produced :
             /\ x[2] \in SeqToSet(scan.result.repos)
             /\ x[2].path \in DOMAIN cache

\* the names of the configured workspaces that did not reach
\* successfulWorkspaces, in configuration order
RECURSIVE NotSuccessful(_, _)
NotSuccessful(workspaces, successful) ==
    IF workspaces = <<>> THEN <<>>
    ELSE (IF Head(workspaces).name \in successful THEN <<>> ELSE <<Head(workspaces).name>>)
         \o NotSuccessful(Tail(workspaces), successful)

\* what C18 says of the error err of a finished ScanWorkspaces
ErrorTellsFailures(err) ==
    /\ (err # <<>>) <=> (NotSuccessful(config, scan.successful) # <<>> \/ ~diskOk)
    /\ FailedWorkspaces(err) = NotSuccessful(config, scan.successful)
    /\ Len(err) = Len(FailedWorkspaces(err)) + (IF diskOk THEN 0 ELSE 1)

\* C18: the error the caller of ScanWorkspaces receives is non-nil exactly
\* when a workspace's discovery failed or the save failed, it has one entry
\* per failed workspace in workspace order, and no other entry but the
\* save's: a repository whose enrichment failed adds none.
C18_ErrorIffFailure ==
    (scan.pc = "done" /\ scan.kind = "all") => ErrorTellsFailures(scan.result.err)

\* the same, for the calls whose final select took the send
C18_DeliveredErrorIffFailure ==
    (scan.pc = "done" /\ scan.kind = "all" /\ scan.result.sent)
       => ErrorTellsFailures(scan.result.err)

\* C19: when ctx is cancelled during ScanWorkspaces or ScanSingleWorkspace,
\* the result handed to the caller carries no error made of the
\* cancellation: no entry of its error is the ctx error.
C19_CancellationIsNoScanError ==
    (scan.pc = "done" /\ scan.ctxDone) =>
       \A e \in SeqToSet(scan.result.err) : e[Len(e)] # "ctx"

\* what C20 says of a finished call: one Save, and a failed Save told in
\* the error of a result that carries the scanned records, which the cache holds
SavedOnceAndReported ==
    /\ scan.saves = 1
    /\ ~diskOk =>
          /\ <<"save">> \in SeqToSet(scan.result.err)
          /\ scan.result.repos = scan.allRepos
          /\ \A k \in 1..Len(scan.allRepos) : scan.allRepos[k].path \in DOMAIN cache

\* C20: a call of ScanWorkspaces or ScanSingleWorkspace saves the cache
\* exactly once, not before the merge; when the save fails, the caller's
\* result tells so in its error and carries the scanned records, and the
\* cache holds the merged records.
C20_SavedOnceAndReported ==
    /\ scan.pc \in {"discover", "enrich", "merge"} => scan.saves = 0
    /\ scan.pc = "done" => SavedOnceAndReported

\* the same, for the calls that reach the merge and whose final select took
\* the send
C20_DeliveredSavedOnce ==
    /\ scan.pc \in {"discover", "enrich", "merge"} => scan.saves = 0
    /\ (scan.pc = "done" /\ scan.result.sent /\
        \A e \in SeqToSet(scan.result.err) : e[1] # "discover")
          => SavedOnceAndReported

----------------------------------------------------------------------------
(* The cache file after an operation *)

\* C21: once a mutating operation (ScanWorkspaces, ScanSingleWorkspace,
\* UpdateRepo, or an incremental scan with its detached tasks and the
\* consumer's final save) is over and all its tasks have returned, the cache
\* file holds every record the in-memory map holds (the file being writable).
C21_QuietCacheIsPersisted ==
    (Quiet /\ tasks = {} /\ diskOk) => disk = cache

----------------------------------------------------------------------------
(* The two discoveries on many directory trees: SpecDiscover *)

NmB == <<"b">>
NmC == <<"c">>
NmM == <<"m">>
NmBuild == <<"b", "u", "i", "l", "d">>
NmVendor == <<"v", "e", "n", "d", "o", "r">>
NmHidden == <<".", "c">>

\* the trees made of one of ts1 and one of ts2 (their paths are disjoint)
Both(ts1, ts2) == {t1 @@ t2 : t1 \in ts1, t2 \in ts2}

\* directory d with any of the contents inside
DirWith(d, inside) == {(d :> "dir") @@ t : t \in inside}

\* a .git directory or no .git entry in d; with the .git file of a worktree as well
GitDirOrNone(d) == {<<>>, Join(d, GitName) :> "dir"}
GitAny(d) == GitDirOrNone(d) \cup {Join(d, GitName) :> "file"}

\* the HEAD file and the refs directory of a bare repository d
BareEntries(d) == (Join(d, HeadName) :> "file") @@ (Join(d, RefsName) :> "dir")

\* the trees below the workspace root /w:
\*   a, a/b, a/b/c            plain directories, each with or without .git
\*   a/.git/m                 a directory inside a .git directory
\*   a/vendor, a/build, build, build/b     skip-listed names
\*   .c                       a hidden directory
\*   x, x/b                   x plain, a repository, a bare one or unreadable
DiscoverTrees ==
    LET w == <<NmW>>
        a == <<NmW, NmA>>
        b == <<NmW, NmA, NmB>>
        bld == <<NmW, NmBuild>>
        x == <<NmW, NmX>>
        m == Join(Join(a, GitName), NmM)
        aGit == {<<>>, Join(a, GitName) :> "file"} \cup
                {(Join(a, GitName) :> "dir") @@ t : t \in DirWith(m, GitDirOrNone(m))}
        bSub == DirWith(b, Both(GitAny(b), DirWith(Join(b, NmC), GitDirOrNone(Join(b, NmC)))))
        aSub == DirWith(a, Both(Both(aGit, bSub),
                                Both(DirWith(Join(a, NmVendor), GitDirOrNone(Join(a, NmVendor))),
                                     DirWith(Join(a, NmBuild), GitDirOrNone(Join(a, NmBuild))))))
        bldSub == DirWith(bld, Both(GitDirOrNone(bld),
                                    DirWith(Join(bld, NmB), GitDirOrNone(Join(bld, NmB)))))
        xTop == GitDirOrNone(x) \cup {BareEntries(x)}
        xIn == DirWith(Join(x, NmB), GitDirOrNone(Join(x, NmB)))
        xSub == DirWith(x, Both(xTop, xIn)) \cup {(x :> "noread") @@ t : t \in xIn}
        hSub == DirWith(Join(w, NmHidden), GitDirOrNone(Join(w, NmHidden)))
    IN  {(w :> "dir") @@ t : t \in Both(Both(aSub, bldSub), Both(xSub, hSub))}

\* the workspace is the whole tree, or a part of it whose root is a
\* repository or has a name of the skip list
DiscoverRoots == {<<NmW>>, <<NmW, NmA>>, <<NmW, NmBuild>>}

\* a scanner on an empty cache whose one workspace has any of the trees
InitDiscover ==
    /\ \E root \in DiscoverRoots : config = <<[name |-> "outer", path |-> root]>>
    /\ fs \in DiscoverTrees
    /\ clock = 0
    /\ cache = EmptyMap
    /\ disk = EmptyMap
    /\ diskOk = TRUE
    /\ scan = IdleScan
    /\ upd = IdleUpd
    /\ inc = IdleInc
    /\ tasks = {}
    /\ calls = 0
    /\ enr = NoEnr
    /\ snap = NoSnap
    /\ mu = Unlocked

NextDiscover ==
    \/ StartIncremental \/ CancelInc \/ QuickDiscover
    \/ StartScanOne \/ CancelScan \/ DiscoverOne

SpecDiscover == InitDiscover /\ [][NextDiscover]_vars

\* how many levels p lies below root
Depth(root, p) == Len(p) - Len(root)

\* d is a directory in which a .git entry is found, and not itself inside a
\* .git directory
IsRepo(tree, d) ==
    /\ d \in DOMAIN tree
    /\ tree[d] = "dir"
    /\ StatOk(tree, Join(d, GitName))
    /\ \A n \in 1..Len(d) : d[n] # GitName

\* d is a bare repository: HEAD and refs are found in it
IsBare(tree, d) ==
    /\ d \in DOMAIN tree
    /\ StatOk(tree, Join(d, HeadName))
    /\ StatOk(tree, Join(d, RefsName))

\* strings.HasPrefix(name, ".") && name != ".git" (scanner.go:422)
Hidden(name) == HasPrefix(name, <<".">>) /\ name # GitName

\* the repositories of the tree that lie at or under root
ReposUnder(tree, root) ==
    {d \in DOMAIN tree :
        IsRepo(tree, d) /\ Len(d) >= Len(root) /\ SubSeq(d, 1, Len(root)) = root}

\* a name the full walk does not enter
Pruned(name) == Hidden(name) \/ name \in SkipNames

\* the repositories at or under root that lie beneath no directory with a
\* pruned name; with strict, the directory's own name is not looked at,
\* otherwise it counts as well
ExpectedRepos(tree, root, strict) ==
    {d \in ReposUnder(tree, root) :
        \A n \in Len(root)..(Len(d) - (IF strict THEN 1 ELSE 0)) : ~Pruned(d[n])}

\* the quick discovery of the incremental scan in flight has returned
QuickReturned == inc.pc = "loop"

UnderSkipped(root, p) ==
    \E n \in (Len(root) + 1)..Len(p) : p[n] \in SkipNames

\* C23: the quick discovery never returns a repository at or beneath a
\* directory named node_modules, target, build, dist, .next, .nuxt or
\* vendor, at either of its two levels.
C23_QuickSkipsLikeFull ==
    QuickReturned =>
       \A p \in SeqToSet(inc.paths) : ~UnderSkipped(inc.ws.path, p)

\* the full discovery of the scan in flight has returned without error
FullReturned == scan.kind = "one" /\ scan.pc = "enrich"

\* p lies inside a .git entry
InsideGit(p) == \E n \in 1..(Len(p) - 1) : p[n] = GitName

\* no directory twice, nothing inside a .git entry visited, nothing inside
\* a pruned directory returned
FullScanOnceAndOutside(tree, root, repos) ==
    /\ Cardinality(SeqToSet(repos)) = Len(repos)
    /\ \A p \in SeqToSet(WalkVisits(tree, root)) : ~InsideGit(p)
    /\ \A p \in SeqToSet(repos) : \A n \in (Len(root) + 1)..(Len(p) - 1) : ~Pruned(p[n])

\* C24 as stated: the full discovery returns exactly the directories under
\* the root that hold a .git directory or file and lie beneath no hidden
\* or skip-listed directory, each once; it visits nothing inside a .git
\* entry and returns nothing from inside a hidden or skip-listed directory.
C24_FullFindsAllOutsidePruned ==
    FullReturned =>
       LET root == scan.ws.path
           repos == discoverRepos(fs, FALSE, root).repos
       IN  /\ scan.waiting = SeqToSet(repos)
           /\ SeqToSet(repos) = ExpectedRepos(fs, root, TRUE)
           /\ FullScanOnceAndOutside(fs, root, repos)

\* C24 as amended: the same, for the directories that neither lie beneath
\* a hidden or skip-listed directory nor have such a name themselves.
C24_FullFindsAllOutsideAndNotPruned ==
    FullReturned =>
       LET root == scan.ws.path
           repos == discoverRepos(fs, FALSE, root).repos
       IN  /\ scan.waiting = SeqToSet(repos)
           /\ SeqToSet(repos) = ExpectedRepos(fs, root, FALSE)
           /\ FullScanOnceAndOutside(fs, root, repos)

\* the full walk returned a repository marked by a .git file and one two
\* levels down, and left out one with a skip-listed name and one inside .git
C24_FoundWorktreeLeftPruned ==
    /\ FullReturned
    /\ \E p \in scan.waiting : fs[Join(p, GitName)] = "file"
    /\ \E p \in scan.waiting : Depth(scan.ws.path, p) = 2
    /\ \E d \in DOMAIN fs : IsRepo(fs, d) /\ Base(d) \in SkipNames /\ d \notin scan.waiting
    /\ \E d \in DOMAIN fs : InsideGit(d) /\ Base(d) # GitName /\ StatOk(fs, Join(d, GitName))

----------------------------------------------------------------------------
(* A full discovery on a cancelled ctx *)

\* this step is a discovery of the full scan in flight
DiscoveryStep ==
    /\ scan.pc = "discover"
    /\ \/ scan.kind = "one" /\ scan'.pc # "discover"
       \/ scan.kind = "all" /\ scan.idx <= Len(config) /\ scan' # scan
                            /\ (scan'.idx # scan.idx \/ scan'.pc # "discover")

\* the workspace that step discovers
DiscoveredWorkspace == IF scan.kind = "all" THEN config[scan.idx] ELSE scan.ws

\* the callback finds ctx cancelled in call number cut: the discovery
\* returns ctx's error after cut - 1 calls
CancelledWalkStops(tree, root) ==
    \A cut \in 1..Len(Visits(tree, root)) :
       LET d == discoverReposUntil(tree, root, cut)
       IN  d.err = "ctx" /\ d.visited = cut - 1

\* C25: a full discovery that finds ctx cancelled, before its first visit
\* or before a later one, returns an error and visits nothing more; its
\* caller starts no enrichment of the paths found so far and merges
\* nothing for them, and the workspace counts as failed.
C25_CancelledDiscoveryFails ==
    /\ []((scan.pc = "discover" /\ (scan.kind = "all" => scan.idx <= Len(config)))
             => CancelledWalkStops(fs, DiscoveredWorkspace.path))
    /\ [](\A e \in SeqToSet(scan.errors) :
             e[1] = "workspace" => e[2] \notin scan.successful)
    /\ [][(DiscoveryStep /\ scan'.ctxDone) =>
            /\ scan'.found = scan.found
            /\ scan'.waiting = scan.waiting
            /\ scan'.scanned = scan.scanned
            /\ scan'.allRepos = scan.allRepos
            /\ scan'.successful = scan.successful
            /\ scan'.pc \in {"discover", "done"}
            /\ cache' = cache /\ disk' = disk
            /\ scan.kind = "all" =>
                  scan'.errors = Append(scan.errors,
                                        <<"workspace", DiscoveredWorkspace.name, "ctx">>)
            /\ scan.kind = "one" =>
                  /\ scan'.pc = "done"
                  /\ scan'.result.sent =>
                        /\ scan'.result.repos = <<>>
                        /\ scan'.result.err = <<<<"discover", scan.ws.name, "ctx">>>>]_vars

\* a scan of all workspaces was cancelled in the walk of its first
\* workspace after a repository had been found there: the workspace has its
\* error, nothing of it was found, enriched or merged
C25_CancelledAfterFirstRepo ==
    /\ scan.kind = "all" /\ scan.pc = "discover" /\ scan.idx = 2
    /\ scan.ctxDone
    /\ scan.errors = <<<<"workspace", config[1].name, "ctx">>>>
    /\ discoverReposUntil(fs, config[1].path, Len(Visits(fs, config[1].path))).repos # <<>>
    /\ scan.found = {} /\ scan.allRepos = <<>> /\ cache = EmptyMap

----------------------------------------------------------------------------
(* The cache file: SpecCache *)

\* In SpecCache the variable cache is the whole RepoCache (version, repos,
\* lastRepoPath, lastWorkspace), its strings are sequences of bytes, its
\* times have an instant and the mark of a monotonic clock reading; disk is
\* the cache file and snap what the last LoadRepoCache returned.

Quote == "\""
Backslash == "\\"
BadBytes == {"0xFE", "0xFF"}      \* bytes that are not UTF-8
Replacement == "U+FFFD"

\* encoding/json on a string: quotes and backslashes are escaped, bytes that
\* are not UTF-8 are written as �
RECURSIVE EscapeString(_)
EscapeString(str) ==
    IF str = <<>> THEN <<>>
    ELSE LET c == Head(str)
         IN  (IF c = Quote THEN <<Backslash, Quote>>
              ELSE IF c = Backslash THEN <<Backslash, Backslash>>
              ELSE IF c \in BadBytes THEN <<Backslash, "u", "f", "f", "f", "d">>
              ELSE <<c>>) \o EscapeString(Tail(str))

MarshalString(str) == <<Quote>> \o EscapeString(str) \o <<Quote>>

\* the string of the text between two quotes: "ok" is FALSE when the text is
\* no JSON string
RECURSIVE UnescapeString(_)
UnescapeString(text) ==
    IF text = <<>> THEN [ok |-> TRUE, str |-> <<>>]
    ELSE IF Head(text) = Quote THEN [ok |-> FALSE, str |-> <<>>]
    ELSE IF Head(text) = Backslash
    THEN IF Len(text) >= 2 /\ text[2] \in {Quote, Backslash}
         THEN LET rest == UnescapeString(SubSeq(text, 3, Len(text)))
              IN  [ok |-> rest.ok, str |-> <<text[2]>> \o rest.str]
         ELSE IF Len(text) >= 6 /\ SubSeq(text, 2, 6) = <<"u", "f", "f", "f", "d">>
         THEN LET rest == UnescapeString(SubSeq(text, 7, Len(text)))
              IN  [ok |-> rest.ok, str |-> <<Replacement>> \o rest.str]
         ELSE [ok |-> FALSE, str |-> <<>>]
    ELSE LET rest == UnescapeString(Tail(text))
         IN  [ok |-> rest.ok,
              str |-> <<IF Head(text) \in BadBytes THEN Replacement ELSE Head(text)>>
                      \o rest.str]

UnmarshalString(text) ==
    IF Len(text) >= 2 /\ text[1] = Quote /\ text[Len(text)] = Quote
    THEN UnescapeString(SubSeq(text, 2, Len(text) - 1))
    ELSE [ok |-> FALSE, str |-> <<>>]

\* time.Time.MarshalJSON writes the wall clock instant as RFC 3339 text, to
\* the nanosecond; the monotonic reading is not written
TimeOf(instant, mono) == [instant |-> instant, mono |-> mono]
MarshalTime(t) == <<"RFC3339", t.instant>>
UnmarshalTime(text) == TimeOf(text[2], FALSE)
\* Time.Equal
SameInstant(t, u) == t.instant = u.instant

MarshalRepo(r) ==
    [path |-> MarshalString(r.path), name |-> MarshalString(r.name),
     branch |-> MarshalString(r.branch), ahead |-> r.ahead, behind |-> r.behind,
     hasUpstream |-> r.hasUpstream,
     lastCommitTime |-> MarshalTime(r.lastCommitTime),
     lastScanned |-> MarshalTime(r.lastScanned),
     workspaceName |-> MarshalString(r.workspaceName)]

UnmarshalRepo(j) ==
    [path |-> UnmarshalString(j.path).str, name |-> UnmarshalString(j.name).str,
     branch |-> UnmarshalString(j.branch).str, ahead |-> j.ahead, behind |-> j.behind,
     hasUpstream |-> j.hasUpstream,
     lastCommitTime |-> UnmarshalTime(j.lastCommitTime),
     lastScanned |-> UnmarshalTime(j.lastScanned),
     workspaceName |-> UnmarshalString(j.workspaceName).str]

\* the members of the "repos" object: one per key, in the order of the keys
RECURSIVE MarshalMembers(_, _)
MarshalMembers(repos, keys) ==
    IF keys = <<>> THEN <<>>
    ELSE <<[key |-> MarshalString(Head(keys)), value |-> MarshalRepo(repos[Head(keys)])]>>
         \o MarshalMembers(repos, Tail(keys))

\* json.MarshalIndent(rc, "", "  ")
Marshal(rc) ==
    [version |-> MarshalTime(rc.version),
     repos |-> MarshalMembers(rc.repos, SortNames(DOMAIN rc.repos)),
     lastRepoPath |-> MarshalString(rc.lastRepoPath),
     lastWorkspace |-> MarshalString(rc.lastWorkspace)]

\* the map of the members of an object: a later member with the key of an
\* earlier one takes its place
RECURSIVE UnmarshalMembers(_, _)
UnmarshalMembers(m, members) ==
    IF members = <<>> THEN m
    ELSE UnmarshalMembers(Put(m, UnmarshalString(Head(members).key).str,
                              UnmarshalRepo(Head(members).value)),
                          Tail(members))

\* json.Unmarshal(data, &cache)
Unmarshal(doc) ==
    [version |-> UnmarshalTime(doc.version),
     repos |-> UnmarshalMembers(EmptyMap, doc.repos),
     lastRepoPath |-> UnmarshalString(doc.lastRepoPath).str,
     lastWorkspace |-> UnmarshalString(doc.lastWorkspace).str]

NoFile == [kind |-> "absent", doc |-> <<>>, of |-> <<>>]
NoCache == [version |-> TimeOf(ZeroTime, FALSE), repos |-> EmptyMap,
            lastRepoPath |-> <<>>, lastWorkspace |-> <<>>]

\* a loader that takes a file it cannot parse for an empty cache
LoadRepoCacheLenient(file, now) ==
    IF file.kind \in {"absent", "garbage"}
    THEN [cache |-> [NoCache EXCEPT !.version = TimeOf(now, TRUE)],
          loaded |-> TRUE, made |-> TRUE, err |-> "nil"]
    ELSE IF file.kind = "unreadable"
    THEN [cache |-> NoCache, loaded |-> FALSE, made |-> FALSE, err |-> "read"]
    ELSE IF file.kind = "object"
    THEN [cache |-> NoCache, loaded |-> TRUE, made |-> FALSE, err |-> "nil"]
    ELSE [cache |-> Unmarshal(file.doc), loaded |-> TRUE, made |-> TRUE, err |-> "nil"]

\* LoadRepoCache, by the kind of the file: absent, unreadable, "garbage" (no
\* JSON of a cache), "object" (JSON without a "repos" object, such as {}) or
\* "json" (what Save wrote). loaded is FALSE where the code returns nil for
\* the cache, made is FALSE where the Repos of the cache returned is nil
LoadRepoCache(file, now) ==
    IF file.kind = "absent"
    THEN [cache |-> [NoCache EXCEPT !.version = TimeOf(now, TRUE)],
          loaded |-> TRUE, made |-> TRUE, err |-> "nil"]
    ELSE IF file.kind = "unreadable"
    THEN [cache |-> NoCache, loaded |-> FALSE, made |-> FALSE, err |-> "read"]
    ELSE IF file.kind = "garbage"
    THEN [cache |-> NoCache, loaded |-> FALSE, made |-> FALSE, err |-> "parse"]
    ELSE IF file.kind = "object"
    THEN [cache |-> NoCache, loaded |-> TRUE, made |-> FALSE, err |-> "nil"]
    ELSE [cache |-> Unmarshal(file.doc), loaded |-> TRUE, made |-> TRUE, err |-> "nil"]

MaxCacheOps == 2      \* changes of the cache in memory in one behaviour
MaxCacheTime == 1     \* the clock of SpecCache stops here

CachePaths == {<<"/", "a">>, <<"/", Quote>>, <<"/", Backslash, "a">>,
               <<"/", "0xFE">>, <<"/", "0xFF">>}

\* the record of a repository as a scan stores it
CacheRecord(path, now) ==
    [path |-> path, name |-> Tail(path), branch |-> <<"m">>, ahead |-> 2, behind |-> 1,
     hasUpstream |-> TRUE, lastCommitTime |-> TimeOf(1, FALSE),
     lastScanned |-> TimeOf(now, TRUE), workspaceName |-> <<"w">>]

InitCache ==
    /\ config = NestedConfig
    /\ fs = Tree0
    /\ clock = 0
    /\ cache = [NoCache EXCEPT !.version = TimeOf(0, TRUE)]
    /\ disk = NoFile
    /\ diskOk \in BOOLEAN
    /\ scan = IdleScan
    /\ upd = IdleUpd
    /\ inc = IdleInc
    /\ tasks = {}
    /\ calls = 0
    /\ enr = NoEnr
    /\ snap = NoSnap
    /\ mu = Unlocked

\* s.cache.Repos[repo.Path] = repo
CachePut ==
    /\ calls < MaxCacheOps
    /\ calls' = calls + 1
    /\ \E p \in CachePaths :
          cache' = [cache EXCEPT !.repos = Put(@, p, CacheRecord(p, clock))]
    /\ UNCHANGED <<config, diskOk, fs, clock, disk, scan, upd, inc, tasks, enr, snap, mu>>

\* UpdateLastRepo, UpdateLastWorkspace
CacheOpen ==
    /\ calls < MaxCacheOps
    /\ calls' = calls + 1
    /\ \/ \E p \in CachePaths : cache' = [cache EXCEPT !.lastRepoPath = p]
       \/ cache' = [cache EXCEPT !.lastWorkspace = <<"w">>]
    /\ UNCHANGED <<config, diskOk, fs, clock, disk, scan, upd, inc, tasks, enr, snap, mu>>

\* RepoCache.Save: MkdirAll may fail before anything is changed; os.WriteFile
\* truncates the file when it opens it, so a write that fails leaves the old
\* file (it could not be opened) or a part of the new text
CacheSave ==
    /\ snap = NoSnap
    /\ IF diskOk
       THEN /\ cache' = [cache EXCEPT !.version = TimeOf(clock, TRUE)]
            /\ disk' = [kind |-> "json", doc |-> Marshal(cache'), of |-> cache']
       ELSE \/ UNCHANGED <<cache, disk>>
            \/ /\ cache' = [cache EXCEPT !.version = TimeOf(clock, TRUE)]
               /\ \/ disk' = disk
                  \/ disk' = [kind |-> "garbage", doc |-> <<>>, of |-> <<>>]
    /\ UNCHANGED <<config, diskOk, fs, clock, scan, upd, inc, tasks, calls, enr, snap, mu>>

\* the file is deleted, overwritten with something else, or made unreadable
CacheFileDamage ==
    /\ snap = NoSnap
    /\ \E k \in {"absent", "garbage", "object", "unreadable"} :
          /\ disk.kind # k
          /\ disk' = [kind |-> k, doc |-> <<>>, of |-> <<>>]
    /\ UNCHANGED <<config, diskOk, fs, clock, cache, scan, upd, inc, tasks, calls, enr, snap, mu>>

CacheTick ==
    /\ snap = NoSnap
    /\ clock < MaxCacheTime
    /\ clock' = clock + 1
    /\ UNCHANGED <<config, diskOk, fs, cache, disk, scan, upd, inc, tasks, calls, enr, snap, mu>>

\* the next start of the program: LoadRepoCache
CacheLoad ==
    /\ snap = NoSnap
    /\ snap' = LoadRepoCache(disk, clock)
    /\ UNCHANGED <<config, diskOk, fs, clock, cache, disk, scan, upd, inc, tasks, calls, enr, mu>>

NextCache == CachePut \/ CacheOpen \/ CacheSave \/ CacheFileDamage \/ CacheTick \/ CacheLoad

SpecCache == InitCache /\ [][NextCache]_vars

\* two records are equal in every field, times being equal as instants
SameRepo(r, q) ==
    /\ r.path = q.path /\ r.name = q.name /\ r.branch = q.branch
    /\ r.ahead = q.ahead /\ r.behind = q.behind /\ r.hasUpstream = q.hasUpstream
    /\ SameInstant(r.lastCommitTime, q.lastCommitTime)
    /\ SameInstant(r.lastScanned, q.lastScanned)
    /\ r.workspaceName = q.workspaceName

\* loaded holds what saved held, but for the format timestamp
RoundTrips(saved, loaded) ==
    /\ DOMAIN loaded.repos = DOMAIN saved.repos
    /\ \A p \in DOMAIN saved.repos : SameRepo(loaded.repos[p], saved.repos[p])
    /\ loaded.lastRepoPath = saved.lastRepoPath
    /\ loaded.lastWorkspace = saved.lastWorkspace

\* the last load read the file that the last Save had written
LoadedSavedFile == snap # NoSnap /\ disk.kind = "json"

\* C26: a load of the file that Save wrote returns a cache with the paths,
\* the records (equal field by field) and the last opened repository and
\* workspace of the cache that was saved.
C26_SaveLoadRoundTrips ==
    LoadedSavedFile => snap.loaded /\ RoundTrips(disk.of, snap.cache)

\* C26 for the caches all of whose strings are UTF-8
C26_Utf8RoundTrips ==
    (LoadedSavedFile /\
     \A p \in DOMAIN disk.of.repos \cup {disk.of.lastRepoPath} :
        \A n \in 1..Len(p) : p[n] \notin BadBytes)
       => snap.loaded /\ RoundTrips(disk.of, snap.cache)

\* C27: LoadRepoCache returns an empty cache with a map that can be written
\* to, and no error, when there is no file; it returns an error and no
\* cache when the file cannot be read or is no JSON of a cache, and never
\* an empty cache for such a file.
C27_LoadAbsentEmptyElseFails ==
    snap # NoSnap =>
       /\ disk.kind = "absent" =>
             /\ snap.err = "nil" /\ snap.loaded /\ snap.made
             /\ snap.cache.repos = EmptyMap
             /\ snap.cache.lastRepoPath = <<>> /\ snap.cache.lastWorkspace = <<>>
       /\ disk.kind \in {"unreadable", "garbage"} =>
             snap.err # "nil" /\ ~snap.loaded
       /\ disk.kind = "unreadable" <=> snap.err = "read"
       /\ disk.kind = "garbage" <=> snap.err = "parse"

\* a file that is no JSON was loaded while the cache in memory held a
\* record: the load failed
C27_UnparsableFileRefused ==
    /\ snap # NoSnap
    /\ disk.kind = "garbage"
    /\ snap.err = "parse" /\ ~snap.loaded
    /\ cache.repos # EmptyMap

----------------------------------------------------------------------------
(* The workspace list of the configuration: SpecConfig *)

\* In SpecConfig snap is what the last AddWorkspace or RemoveWorkspace was
\* called with and returned, and the list it was called on.

MaxConfigCalls == 4          \* calls in one behaviour
ConfigNames == {"outer", "inner", "other"}
\* a directory, another one, a file, and a path that does not exist
ConfigPaths == {<<NmW>>, <<NmW, NmIn>>, <<NmW, NmIn, NmX, GitName>>, <<NmA>>}

\* the position of the first workspace called name, 0 if there is none
RECURSIVE FirstNamed(_, _, _)
FirstNamed(workspaces, name, i) ==
    IF i > Len(workspaces) THEN 0
    ELSE IF workspaces[i].name = name THEN i
    ELSE FirstNamed(workspaces, name, i + 1)

\* an AddWorkspace without the check of the name
AddWorkspaceUnchecked(workspaces, tree, name, path, saveOk) ==
    IF ~StatOk(tree, path)
    THEN [workspaces |-> workspaces, err |-> "path does not exist"]
    ELSE IF tree[path] = "file"
    THEN [workspaces |-> workspaces, err |-> "path is not a directory"]
    ELSE [workspaces |-> Append(workspaces, [name |-> name, path |-> path]),
          err |-> IF saveOk THEN "nil" ELSE "save"]

\* Config.AddWorkspace: the list after the call and the error returned
AddWorkspace(workspaces, tree, name, path, saveOk) ==
    IF FirstNamed(workspaces, name, 1) # 0
    THEN [workspaces |-> workspaces, err |-> "already exists"]
    ELSE IF ~StatOk(tree, path)
    THEN [workspaces |-> workspaces, err |-> "path does not exist"]
    ELSE IF tree[path] = "file"
    THEN [workspaces |-> workspaces, err |-> "path is not a directory"]
    ELSE [workspaces |-> Append(workspaces, [name |-> name, path |-> path]),
          err |-> IF saveOk THEN "nil" ELSE "save"]

\* Config.RemoveWorkspace
RemoveWorkspace(workspaces, name, saveOk) ==
    LET i == FirstNamed(workspaces, name, 1)
    IN  IF i = 0 THEN [workspaces |-> workspaces, err |-> "not found"]
        ELSE [workspaces |-> SubSeq(workspaces, 1, i - 1) \o
                             SubSeq(workspaces, i + 1, Len(workspaces)),
              err |-> IF saveOk THEN "nil" ELSE "save"]

\* the configuration LoadConfig makes when there is no file
InitConfig ==
    /\ config = <<>>
    /\ fs = Tree0
    /\ clock = 0
    /\ cache = EmptyMap
    /\ disk = EmptyMap
    /\ diskOk \in BOOLEAN
    /\ scan = IdleScan
    /\ upd = IdleUpd
    /\ inc = IdleInc
    /\ tasks = {}
    /\ calls = 0
    /\ enr = NoEnr
    /\ snap = NoSnap
    /\ mu = Unlocked

CallAddWorkspace ==
    /\ calls < MaxConfigCalls
    /\ calls' = calls + 1
    /\ \E name \in ConfigNames, path \in ConfigPaths :
          LET r == AddWorkspace(config, fs, name, path, diskOk)
          IN  /\ config' = r.workspaces
              /\ snap' = [op |-> "add", name |-> name, err |-> r.err, before |-> config]
    /\ UNCHANGED <<diskOk, fs, clock, cache, disk, scan, upd, inc, tasks, enr, mu>>

CallRemoveWorkspace ==
    /\ calls < MaxConfigCalls
    /\ calls' = calls + 1
    /\ \E name \in ConfigNames :
          LET r == RemoveWorkspace(config, name, diskOk)
          IN  /\ config' = r.workspaces
              /\ snap' = [op |-> "remove", name |-> name, err |-> r.err, before |-> config]
    /\ UNCHANGED <<diskOk, fs, clock, cache, disk, scan, upd, inc, tasks, enr, mu>>

\* the configuration directory becomes writable or stops being so
ConfigDiskFlip ==
    /\ diskOk' = ~diskOk
    /\ UNCHANGED <<config, fs, clock, cache, disk, scan, upd, inc, tasks, calls, enr, snap, mu>>

NextConfig == CallAddWorkspace \/ CallRemoveWorkspace \/ ConfigDiskFlip

SpecConfig == InitConfig /\ [][NextConfig]_vars

NamesOf(workspaces) == {workspaces[i].name : i \in 1..Len(workspaces)}

\* C28: no two workspaces of the list have one name; AddWorkspace with a
\* name of the list and RemoveWorkspace with a name not in it return an
\* error and leave the list as it was.
C28_WorkspaceNamesUnique ==
    /\ \A i, j \in 1..Len(config) : config[i].name = config[j].name => i = j
    /\ snap # NoSnap =>
          /\ (snap.op = "add" /\ snap.name \in NamesOf(snap.before)) =>
                snap.err = "already exists" /\ config = snap.before
          /\ (snap.op = "remove" /\ snap.name \notin NamesOf(snap.before)) =>
                snap.err = "not found" /\ config = snap.before
          /\ (snap.op = "add" /\ snap.err = "nil") =>
                NamesOf(config) = NamesOf(snap.before) \cup {snap.name}
          /\ (snap.op = "remove" /\ snap.err = "nil") =>
                NamesOf(config) = NamesOf(snap.before) \ {snap.name}

\* AddWorkspace was called with the name of one of two workspaces and left
\* the list as it was
C28_SecondAddRefused ==
    /\ snap # NoSnap
    /\ snap.op = "add" /\ snap.err = "already exists"
    /\ Len(config) = 2 /\ config = snap.before

----------------------------------------------------------------------------
(* Save beside the detached tasks: SpecSave *)

\* the detached tasks an earlier incremental scan has left running
SaveTasks ==
    {[repo |-> Placeholder(p, "outer", 0), pc |-> "spawned", live |-> l] :
        p \in RepoPaths, l \in BOOLEAN}

\* a full scan has merged and unlocked and is about to save (scanner.go:77-80,
\* 333-336) while tasks of an earlier incremental scan are running
InitSave ==
    /\ config = NestedConfig
    /\ fs = Tree0
    /\ clock = 0
    /\ \E P \in SUBSET RepoPaths :
          \E c \in [P -> UNION {MergeOld(p) : p \in RepoPaths}] :
             /\ \A p \in P : c[p] \in MergeOld(p)
             /\ cache = c
    /\ disk = EmptyMap
    /\ diskOk \in BOOLEAN
    /\ \E kind \in {"all", "one"} :
          scan = [IdleScan EXCEPT !.pc = "save", !.kind = kind, !.ws = config[1],
                                  !.idx = Len(config) + 1]
    /\ upd = IdleUpd
    /\ inc = IdleInc
    /\ tasks \in (SUBSET SaveTasks) \ {{}}
    /\ calls = 1
    /\ enr = NoEnr
    /\ snap = NoSnap
    /\ mu = Unlocked

\* the maps an iteration over the map can see while entries are being
\* written: each path as it was before or as it is after
MixedMaps(before, after) ==
    {[p \in P |-> IF p \in A THEN after[p] ELSE before[p]] :
        <<P, A>> \in {<<Q, B>> \in (SUBSET (DOMAIN before \cup DOMAIN after)) \X
                                   (SUBSET DOMAIN after) :
                         /\ B \subseteq Q
                         /\ Q \ B \subseteq DOMAIN before}}

\* RepoCache.Save is entered: no lock is taken, json.MarshalIndent starts to
\* read the map (workspace.go:177-179)
SaveBegin ==
    /\ scan.pc = "save"
    /\ scan' = [scan EXCEPT !.pc = "saving", !.before = cache]
    /\ UNCHANGED <<config, diskOk, fs, clock, cache, disk, upd, inc, tasks, calls, enr, snap, mu>>

\* json.MarshalIndent and os.WriteFile end. When the map was written while
\* it was read, the text holds any mixture of the old and the new entries, or
\* the runtime ends the program (concurrent map iteration and map write)
SaveEnd ==
    /\ scan.pc = "saving"
    /\ \/ /\ \E seen \in MixedMaps(scan.before, cache) :
                disk' = Save(seen, disk, diskOk)
          /\ LET errors == IF diskOk THEN scan.errors ELSE Append(scan.errors, <<"save">>)
             IN  \E res \in Delivered(scan.ctxDone, scan.allRepos, errors) :
                    scan' = [scan EXCEPT !.pc = "done", !.errors = errors,
                                         !.result = res, !.saves = @ + 1]
          /\ tasks' = tasks
       \/ /\ cache # scan.before
          /\ scan' = [scan EXCEPT !.pc = "fatal"]
          /\ tasks' = {}
          /\ disk' = disk
    /\ UNCHANGED <<config, diskOk, fs, clock, cache, upd, inc, calls, enr, snap, mu>>

NextSave ==
    \/ SaveBegin \/ SaveEnd \/ ReceiveScan
    \/ TaskSkip \/ TaskQuery \/ TaskStore

SpecSave == InitSave /\ [][NextSave]_vars

\* C29: every read and every write of the cache is made under the one lock
\* of the scanner, so that no write is made while Save reads the map to
\* serialize it.
C29_NoWriteWhileSaveReads ==
    [][(scan.pc = "saving" /\ scan'.pc = "saving") =>
          /\ cache' = cache
          /\ \A t \in tasks : t.pc = "queried" => t \in tasks']_vars

----------------------------------------------------------------------------
(* The lock and the git queries, step by step: SpecLock *)

\* In SpecLock tasks holds the goroutines inside scanRepo ("worker": called
\* by scanRepos; "update": called by UpdateRepo, which stores the record)
\* and inside enrichRepoMetadata ("enrich"). pc is "start", "rlocked" (past
\* s.mu.RLock()), "branch", "aheadBehind", "commits" (inside that query of
\* package git), "queried" (past the queries), "locked" (past s.mu.Lock());
\* holds is the hold the goroutine has on s.mu: "none", "r" or "w".

MaxLockCalls == 3          \* goroutines started in one behaviour
LockKinds == {"worker", "update", "enrich"}
QueryPcs == {"branch", "aheadBehind", "commits"}

\* a scanRepo that gives its read lock back with defer
HoldAfterMissDeferred == "r"

\* scanRepo on a cache miss: s.mu.RUnlock() comes before the first query
HoldAfterMiss == "none"

InitLock ==
    /\ config = NestedConfig
    /\ fs = Tree0
    /\ clock = 0
    /\ \E P \in SUBSET RepoPaths :
          cache = [p \in P |-> Enriched(Placeholder(p, "outer", 0 - StalenessThreshold),
                                        AnswersOk)]
    /\ disk = EmptyMap
    /\ diskOk = TRUE
    /\ scan = IdleScan
    /\ upd = IdleUpd
    /\ inc = IdleInc
    /\ tasks = {}
    /\ calls = 0
    /\ enr = NoEnr
    /\ snap = NoSnap
    /\ mu = Unlocked

Readers == {t \in tasks : t.holds = "r"}

\* go func: a goroutine enters scanRepo or enrichRepoMetadata
LockSpawn ==
    /\ calls < MaxLockCalls
    /\ calls' = calls + 1
    /\ \E k \in LockKinds, p \in RepoPaths, c \in BOOLEAN :
          /\ \A t \in tasks : ~(t.kind = k /\ t.repo.path = p)
          /\ tasks' = tasks \cup
                {[kind |-> k, repo |-> Placeholder(p, "outer", clock), pc |-> "start",
                  holds |-> "none", ctxDone |-> c]}
    /\ UNCHANGED <<config, diskOk, fs, clock, cache, disk, scan, upd, inc, enr, snap, mu>>

\* the select on ctx.Done() at the head of both functions, then s.mu.RLock()
\* in scanRepo and the first query in enrichRepoMetadata
LockEnter ==
    /\ \E t \in tasks :
          /\ t.pc = "start"
          /\ IF t.ctxDone THEN tasks' = tasks \ {t}
             ELSE IF t.kind = "enrich"
             THEN tasks' = (tasks \ {t}) \cup {[t EXCEPT !.pc = "branch"]}
             ELSE /\ RLock(mu)
                  /\ tasks' = (tasks \ {t}) \cup {[t EXCEPT !.pc = "rlocked", !.holds = "r"]}
    /\ UNCHANGED <<config, diskOk, fs, clock, cache, disk, scan, upd, inc, calls, enr, snap, mu>>

\* scanRepo looks the path up: a fresh record is returned after
\* s.mu.RUnlock(), otherwise s.mu.RUnlock() and the first query
LockLookup ==
    /\ \E t \in tasks :
          /\ t.pc = "rlocked"
          /\ IF t.repo.path \in DOMAIN cache /\ Fresh(cache[t.repo.path], clock)
             THEN tasks' = (tasks \ {t}) \cup
                     {[t EXCEPT !.pc = "queried", !.holds = "none",
                                !.repo = cache[t.repo.path]]}
             ELSE tasks' = (tasks \ {t}) \cup
                     {[t EXCEPT !.pc = "branch", !.holds = HoldAfterMiss]}
    /\ UNCHANGED <<config, diskOk, fs, clock, cache, disk, scan, upd, inc, calls, enr, snap, mu>>

\* one query of package git returns and the next one is called, or the
\* last one returns
LockQuery ==
    /\ \E t \in tasks, q \in ScanAnswers :
          /\ t.pc \in QueryPcs
          /\ tasks' = (tasks \ {t}) \cup
                {IF t.pc = "branch" THEN [t EXCEPT !.pc = "aheadBehind"]
                 ELSE IF t.pc = "aheadBehind" THEN [t EXCEPT !.pc = "commits"]
                 ELSE [t EXCEPT !.pc = "queried", !.repo = Enriched(t.repo, q),
                                !.holds = "none"]}
    /\ UNCHANGED <<config, diskOk, fs, clock, cache, disk, scan, upd, inc, calls, enr, snap, mu>>

\* past the queries: scanRepo returns to scanRepos; UpdateRepo and
\* enrichRepoMetadata take s.mu.Lock()
LockAcquire ==
    /\ \E t \in tasks :
          /\ t.pc = "queried"
          /\ IF t.kind = "worker"
             THEN tasks' = tasks \ {t} /\ mu' = mu
             ELSE /\ Lock(mu) /\ Readers = {}
                  /\ mu' = [writer |-> TRUE]
                  /\ tasks' = (tasks \ {t}) \cup {[t EXCEPT !.pc = "locked", !.holds = "w"]}
    /\ UNCHANGED <<config, diskOk, fs, clock, cache, disk, scan, upd, inc, calls, enr, snap>>

\* s.cache.Repos[path] = repo; s.mu.Unlock()
LockStore ==
    /\ \E t \in tasks :
          /\ t.pc = "locked"
          /\ cache' = UpdateCacheRepo(cache, t.repo)
          /\ mu' = Unlocked
          /\ tasks' = tasks \ {t}
    /\ UNCHANGED <<config, diskOk, fs, clock, disk, scan, upd, inc, calls, enr, snap>>

NextLock == LockSpawn \/ LockEnter \/ LockLookup \/ LockQuery \/ LockAcquire \/ LockStore

SpecLock == InitLock /\ [][NextLock]_vars

\* C30: a goroutine that is inside a query of the external VCS has no hold
\* on the lock of the cache, and one that has a hold is inside no query.
C30_NoLockAcrossQuery ==
    /\ \A t \in tasks : t.pc \in QueryPcs => t.holds = "none"
    /\ \A t \in tasks : t.holds # "none" => t.pc \in {"rlocked", "locked"}
    /\ mu.writer <=> \E t \in tasks : t.holds = "w"
    /\ mu.writer => Readers = {}

\* scanRepo is inside a query after a cache miss while the write lock is
\* held by an enrichment that is about to store
C30_QueryBesideWriter ==
    /\ \E t \in tasks : t.kind \in {"worker", "update"} /\ t.pc \in QueryPcs
    /\ \E t \in tasks : t.kind = "enrich" /\ t.holds = "w"

----------------------------------------------------------------------------
(* The end of scanRepos: SpecPoolLive *)

\* wg.Wait() returns and close(results) (scanner.go:208-211)
PoolClose ==
    /\ scan.pc = "enrich"
    /\ scan.closes = 0
    /\ \A p \in DOMAIN scan.pool : scan.pool[p].pc = "returned"
    /\ scan' = [scan EXCEPT !.closes = @ + 1]
    /\ UNCHANGED <<config, diskOk, fs, clock, cache, disk, upd, inc, tasks, calls, enr, snap, mu>>

\* the range over results ends on the closed and drained channel and
\* scanRepos returns (scanner.go:215-223)
PoolCollect ==
    /\ scan.pc = "enrich"
    /\ scan.closes > 0
    /\ scan' = [scan EXCEPT !.pc = "merge", !.allRepos = scan.scanned]
    /\ UNCHANGED <<config, diskOk, fs, clock, cache, disk, upd, inc, tasks, calls, enr, snap, mu>>

NextPoolLive ==
    \/ CancelScan \/ PoolAcquire \/ PoolCancelled \/ PoolScan \/ PoolRelease
    \/ PoolClose \/ PoolCollect

\* every goroutine of scanRepos that can take a step takes one; when ctx
\* is cancelled is left open
SpecPoolLive ==
    /\ InitPool /\ [][NextPoolLive]_vars
    /\ WF_vars(PoolAcquire) /\ WF_vars(PoolCancelled) /\ WF_vars(PoolScan)
    /\ WF_vars(PoolRelease) /\ WF_vars(PoolClose) /\ WF_vars(PoolCollect)

\* C31: whenever ctx is cancelled, every worker of scanRepos returns, the
\* results channel is closed once, after the last worker, and the collector
\* returns.  (The collector returns only on the closed channel, and the
\* channel is closed only when every worker has returned, so the last
\* conjunct makes every worker finish.)
C31_PoolWindsDown ==
    /\ [](scan.closes <= 1)
    /\ [](scan.closes = 1 => \A p \in DOMAIN scan.pool : scan.pool[p].pc = "returned")
    /\ [](scan.pc = "merge" => scan.closes = 1)
    /\ <>(scan.pc = "merge")

\* scanRepos has returned after a cancellation that reached one worker at
\* its select and another past the semaphore
C31_ReturnedAfterCancel ==
    /\ scan.pc = "merge" /\ scan.ctxDone /\ scan.closes = 1
    /\ \E p \in DOMAIN scan.pool : scan.pool[p].released = 0
    /\ \E p \in DOMAIN scan.pool : scan.pool[p].released = 1
    /\ Len(scan.allRepos) = SemaphoreWidth - 1

----------------------------------------------------------------------------
(* Left-over enrichment tasks and the full scan *)

\* the workspaces whose entries the merge of the current call has replaced
MergedWorkspaces ==
    IF scan.kind = "all" THEN scan.successful ELSE {scan.ws.name}

\* the entries of the workspaces named
EntriesAmong(repos, names) ==
    [p \in {q \in DOMAIN repos : repos[q].workspaceName \in names} |-> repos[p]]

\* the merge of the call in flight is over (the calls that fail before the
\* merge go to "done" without a save)
Merged == scan.pc = "save" \/ (scan.pc = "done" /\ scan.saves > 0)

\* C32: once a full scan has merged, the entries of the workspaces it
\* scanned stay what the merge made them while no further scan operation is
\* started: no detached enrichment task of an earlier incremental scan
\* re-inserts a path or replaces a record afterwards.
C32_MergedEntriesStay ==
    [][(/\ Merged
        /\ scan'.pc \in {"save", "done"}
        /\ upd' = upd /\ inc' = inc)
       => EntriesAmong(cache', MergedWorkspaces) = EntriesAmong(cache, MergedWorkspaces)]_vars

----------------------------------------------------------------------------
(* The consumer's placeholder and the task's record *)

\* the consumer takes the head of the stream and stores it
ConsumerStores == inc.ch # <<>> /\ inc'.ch = Tail(inc.ch)

\* the detached task spawned for path p has stored its record (a task of a
\* scan whose ctx is not cancelled leaves tasks only by storing)
TaskStoredFor(p) ==
    /\ ~inc.ctxDone
    /\ p \in DOMAIN cache
    /\ \A t \in tasks : t.repo.path # p

\* C33: in an incremental scan without cancellation a placeholder never
\* overwrites enriched data: when the consumer stores a placeholder whose
\* task has already stored its record, the record stays, so that at the end
\* every discovered path carries what its enrichment obtained.
C33_PlaceholderKeepsEnriched ==
    [][ConsumerStores =>
          LET p == Head(inc.ch).path
          IN  TaskStoredFor(p) => cache'[p] = cache[p]]_vars

----------------------------------------------------------------------------
(* LastScanned over the life of a record *)

\* C34: the lastScanned of the cache record of a path never decreases,
\* whichever writer replaces the record (the merge of a full scan,
\* UpdateRepo, UpdateCacheRepo, a detached task).
C34_LastScannedNeverDecreases ==
    [][\A p \in DOMAIN cache :
          p \in DOMAIN cache' => cache'[p].lastScanned >= cache[p].lastScanned]_vars

----------------------------------------------------------------------------
(* What the staleness test takes for fresh *)

\* scanRepo returns the cached record of p without a query in this step: in
\* UpdateRepo, or in a worker of a full scan
HitOn(p) ==
    \/ /\ upd.pc = "idle" /\ upd'.pc = "store"
       /\ upd'.path = p /\ upd'.queries = 0
    \/ /\ scan.pc = "enrich" /\ p \in scan.waiting /\ p \notin scan'.waiting
       /\ ~scan.ctxDone
       /\ p \in DOMAIN cache /\ Fresh(cache[p], clock)

\* the cache holds under the path of task t the placeholder the consumer
\* stored, and t has not run a query
NeverEnriched(t) ==
    /\ t.pc = "spawned"
    /\ t.repo.path \in DOMAIN cache
    /\ cache[t.repo.path] = t.repo

\* C35: a record the staleness test treats as fresh is the result of an
\* enrichment whose three queries were attempted: a placeholder that was
\* never enriched is not returned by a later scanRepo as a cache hit.
C35_HitsAreEnriched ==
    [][\A t \in tasks : NeverEnriched(t) => ~HitOn(t.repo.path)]_vars

----------------------------------------------------------------------------
(* Readers beside the merge *)

\* the records of workspace w in the sequence a reader got
SeenOf(seq, w) == {seq[i] : i \in {j \in 1..Len(seq) : seq[j].workspaceName = w}}

\* the cache the merge of the call in flight ends with
AfterMerge == MergeAll(scan.before, scan.successful, scan.allRepos)

----------------------------------------------------------------------------
(* The one result of a full scan *)

\* C37: every call of ScanWorkspaces or ScanSingleWorkspace has sent one
\* ScanResult when its goroutine returns and closes the channel, whatever
\* the state of ctx: the caller's receive never yields the zero value of
\* the closed channel.
C37_ResultSentBeforeClose ==
    [][(scan.pc # "done" /\ scan'.pc = "done") => scan'.result.sent]_vars

----------------------------------------------------------------------------
(* UpdateRepo and the workspace of a record *)

\* C38: UpdateRepo(path) leaves the workspaceName of an already cached
\* record as it was, whatever the configured roots (one root a prefix of
\* another, the path under no root).
C38_RefreshKeepsWorkspace ==
    [][(upd.pc = "store" /\ upd'.pc = "idle" /\ upd.path \in DOMAIN cache)
       => cache'[upd.path].workspaceName = cache[upd.path].workspaceName]_vars

----------------------------------------------------------------------------
(* Quick discovery against the full walk *)

\* what the full discovery of the workspace of the incremental scan in
\* flight returns on the tree as it is
FullOfQuick == SeqToSet(discoverRepos(fs, FALSE, inc.ws.path).repos)

\* C39: every path the quick discovery of a workspace returns is returned
\* by the full discovery of the same workspace on the same tree, so that
\* the merge of the next full scan keeps what the incremental scan stored.
C39_QuickWithinFull ==
    QuickReturned => SeqToSet(inc.paths) \subseteq FullOfQuick

\* the same, leaving aside what the quick discovery alone returns: a
\* directory with a pruned name (skip list, hidden) or under a root with
\* such a name, a bare repository, a path at or inside a .git entry
C39_QuickWithinFullButExtras ==
    QuickReturned =>
       \A p \in SeqToSet(inc.paths) :
          \/ p \in FullOfQuick
          \/ \E n \in Len(inc.ws.path)..Len(p) : Pruned(p[n]) \/ p[n] = GitName
          \/ (IsBare(fs, p) /\ ~StatOk(fs, Join(p, GitName)))

----------------------------------------------------------------------------
(* The front end's event loop around incremental scans: SpecLoop.

   The user starts workspace scans with a workspace selected ("r",
   part_006:955-959), so each scan is a scanSingleWorkspaceIncremental.  In
   this specification
     calls  is the number of scans started; a scan is known by its number,
     inc    maps each scan to its ctx and its producer (the record of Spec),
     tasks  maps each scan to the number of incrementalScanNextCmd commands
            in flight on its channel,
     upd    holds the messages the commands have produced and Update has
            not handled yet (commands deliver in any order),
     snap   is the model: scanning, incrementalScanCh, incrementalCancel
            (0 for nil), and the scans whose completion message was handled.
   The 30 s timeout of a scan's ctx does not expire, and the enrichment
   tasks, which touch no field of the model, are left out. *)

MaxLoopScans == 2
LoopScans == 1..MaxLoopScans
LoopWorkspace == NestedConfig[1]
LoopPaths == <<<<NmW, NmX>>, <<NmW, NmIn, NmX>>>>

NoMessages ==
    [init |-> {}, discovered |-> [k \in LoopScans |-> 0],
     scanned |-> [k \in LoopScans |-> 0]]

InitLoop ==
    /\ config = NestedConfig
    /\ fs = Tree0
    /\ clock = 0
    /\ cache = EmptyMap
    /\ disk = EmptyMap
    /\ diskOk = TRUE
    /\ scan = IdleScan
    /\ upd = NoMessages
    /\ inc = [k \in LoopScans |-> IdleInc]
    /\ tasks = [k \in LoopScans |-> 0]
    /\ calls = 0
    /\ enr = NoEnr
    /\ snap = [scanning |-> FALSE, ch |-> 0, cancel |-> 0, finished |-> {}]
    /\ mu = Unlocked

\* model.startWorkspaceScan (part_006:1375-1404): the scan in flight is
\* cancelled and forgotten, the command of a new one is issued
StartWorkspaceScan ==
    /\ calls < MaxLoopScans
    /\ calls' = calls + 1
    /\ inc' = [k \in LoopScans |->
                  IF k = calls + 1
                  THEN [IdleInc EXCEPT !.pc = "init", !.ws = LoopWorkspace]
                  ELSE IF k = snap.cancel THEN [inc[k] EXCEPT !.ctxDone = TRUE]
                  ELSE inc[k]]
    /\ snap' = [snap EXCEPT !.cancel = 0, !.ch = 0, !.scanning = TRUE]
    /\ UNCHANGED <<config, diskOk, fs, clock, cache, disk, scan, upd, tasks, enr, mu>>

\* the command of scanSingleWorkspaceIncremental (part_006:363-367) and the
\* quick discovery of the producer it starts (scanner.go:356-363)
LoopInitCmd ==
    \E k \in LoopScans :
       /\ inc[k].pc = "init"
       /\ inc' = [inc EXCEPT ![k] = [@ EXCEPT !.pc = "loop", !.paths = LoopPaths]]
       /\ upd' = [upd EXCEPT !.init = @ \cup {k}]
       /\ UNCHANGED <<config, diskOk, fs, clock, cache, disk, scan, tasks, calls, enr, snap, mu>>

\* one iteration of the producer's send loop (scanner.go:366-386)
LoopEmit ==
    \E k \in LoopScans :
       /\ inc[k].pc = "loop"
       /\ inc[k].paths # <<>>
       /\ ~ProducerSeesDone(inc[k])
       /\ Len(inc[k].ch) < IncBuffer
       /\ inc' = [inc EXCEPT ![k] =
                     [@ EXCEPT !.paths = Tail(@),
                               !.ch = Append(@, Placeholder(Head(inc[k].paths),
                                                            inc[k].ws.name, clock))]]
       /\ UNCHANGED <<config, diskOk, fs, clock, cache, disk, scan, upd, tasks, calls, enr, snap, mu>>

\* the producer returns and its deferred close runs (scanner.go:357)
LoopClose ==
    \E k \in LoopScans :
       /\ inc[k].pc = "loop"
       /\ inc[k].paths = <<>> \/ ProducerSeesDone(inc[k])
       /\ inc' = [inc EXCEPT ![k] = DeferredClose([@ EXCEPT !.pc = "closed", !.paths = <<>>])]
       /\ UNCHANGED <<config, diskOk, fs, clock, cache, disk, scan, upd, tasks, calls, enr, snap, mu>>

\* incrementalScanNextCmd receives (part_006:379-399): a placeholder is
\* stored and reported; on the closed channel ctx is cancelled, the cache
\* saved and the completion reported
LoopNextCmd ==
    \E k \in LoopScans :
       /\ tasks[k] > 0
       /\ inc[k].ch # <<>> \/ inc[k].closed
       /\ tasks' = [tasks EXCEPT ![k] = @ - 1]
       /\ IF inc[k].ch # <<>>
          THEN /\ cache' = UpdateCacheRepo(cache, Head(inc[k].ch))
               /\ inc' = [inc EXCEPT ![k] = [@ EXCEPT !.ch = Tail(@)]]
               /\ upd' = [upd EXCEPT !.discovered = [@ EXCEPT ![k] = @ + 1]]
               /\ disk' = disk
          ELSE /\ inc' = [inc EXCEPT ![k] = [@ EXCEPT !.ctxDone = TRUE]]
               /\ disk' = SaveCache(cache, disk, diskOk)
               /\ upd' = [upd EXCEPT !.scanned = [@ EXCEPT ![k] = @ + 1]]
               /\ cache' = cache
       /\ UNCHANGED <<config, diskOk, fs, clock, scan, calls, enr, snap, mu>>

\* Update on incrementalScanInitMsg (part_006:1189-1194)
HandleInit ==
    \E k \in upd.init :
       /\ upd' = [upd EXCEPT !.init = @ \ {k}]
       /\ snap' = [snap EXCEPT !.ch = k, !.cancel = k]
       /\ tasks' = [tasks EXCEPT ![k] = @ + 1]
       /\ UNCHANGED <<config, diskOk, fs, clock, cache, disk, scan, inc, calls, enr, mu>>

\* Update on repoDiscoveredMsg (part_006:1195-1206): the next receive is
\* issued on the channel the model holds now
HandleDiscovered ==
    \E k \in LoopScans :
       /\ upd.discovered[k] > 0
       /\ upd' = [upd EXCEPT !.discovered = [@ EXCEPT ![k] = @ - 1]]
       /\ tasks' = IF snap.ch # 0 THEN [tasks EXCEPT ![snap.ch] = @ + 1] ELSE tasks
       /\ UNCHANGED <<config, diskOk, fs, clock, cache, disk, scan, inc, calls, enr, snap, mu>>

\* Update on workspaceScanMsg (part_006:1230-1236)
HandleScanned ==
    \E k \in LoopScans :
       /\ upd.scanned[k] > 0
       /\ upd' = [upd EXCEPT !.scanned = [@ EXCEPT ![k] = @ - 1]]
       /\ snap' = [snap EXCEPT !.cancel = 0, !.ch = 0, !.scanning = FALSE,
                               !.finished = @ \cup {k}]
       /\ UNCHANGED <<config, diskOk, fs, clock, cache, disk, scan, inc, tasks, calls, enr, mu>>

NextLoop ==
    \/ StartWorkspaceScan \/ LoopInitCmd \/ LoopEmit \/ LoopClose \/ LoopNextCmd
    \/ HandleInit \/ HandleDiscovered \/ HandleScanned

SpecLoop == InitLoop /\ [][NextLoop]_vars

\* Update handles the completion message of a scan that is not the newest
StaleCompletion ==
    \E k \in LoopScans :
       /\ k # calls
       /\ upd.scanned[k] > 0
       /\ upd'.scanned[k] < upd.scanned[k]

\* C40: starting a scan while an incremental scan is in flight cancels the
\* old scan and leaves the new one alone: the completion message of the old
\* scan clears neither the scanning flag nor the channel nor the cancel
\* function of the new scan, and the scanning flag is set exactly while the
\* newest scan has not completed.
C40_OldCompletionLeavesNewScan ==
    /\ [](calls > 0 => (snap.scanning <=> calls \notin snap.finished))
    /\ [][StaleCompletion =>
             /\ snap'.scanning = snap.scanning
             /\ snap'.ch = snap.ch
             /\ snap'.cancel = snap.cancel]_vars

====
